---- MODULE Spec2Model ----
(***************************************************************************)
(* Burrowcode: Intake (api/main.go), Processor (worker/main.go) and the    *)
(* broker task they share on queue `ffmpeg`, followed through the handler  *)
(* handleFFmpegCommand, its workspace and its webhook enqueue.             *)
(*                                                                         *)
(* A Go string is a sequence of atoms (TLA+ strings); concatenation is \o  *)
(* and strings.Contains is a contiguous-subsequence test, so that a        *)
(* client-chosen key or a tool's captured output embedded in an error      *)
(* message takes part in the substring tests made on that message.         *)
(***************************************************************************)
EXTENDS Integers, Sequences, FiniteSets, TLC

VARIABLES
    tState,      \* broker state of the task: none|pending|active|retry|completed|archived
    tPayload,    \* the task payload (bytes written at enqueue)
    tRetried,    \* the broker's retry counter of the task
    tLastErr,    \* the broker's last-error string of the task (<<>> = "")
    tOpts,       \* the options the task was enqueued with
    tResult,     \* the task's result slot (NoResult = empty)
    cur,         \* the handler invocation the broker is waiting on (0 = none)
    invs,        \* the handler invocations, in order of pickup
    dirExists,   \* <WORK_DIR>/<command_id> exists
    files,       \* paths of the files the Processor and its tool have written
    storage,     \* destination paths stored through the storage adapter
    webhooks,    \* notification tasks enqueued on queue `webhooks`
    response,    \* last answer of POST /v1/commands
    resourceCheckEnabled, \* cfg.Resources.Enabled
    attempts,    \* history: number of pickups of the task
    writes,      \* history: number of writes of the result slot
    strayWrite,  \* history: an attempt settled as failed has written the result slot
    strayNotify, \* history: an attempt settled as failed has enqueued a notification
    doneEvents,  \* history: the events of the attempt the task completed on
    onlyDownloadFailures, \* history: every settled attempt returned a download error
    cancelUnmarked, \* history: an invocation whose context was done before it wrote a
                 \* Result has returned nil or an error without the cancelled marker
    nState,      \* broker state of the notification task on queue `webhooks`
    nPayload,    \* its payload
    nOpts,       \* the options it was enqueued with
    nRetried,    \* its retry counter
    nLastErr,    \* its last-error string
    nInv,        \* the invocation of handleWebhookDeliver the broker is waiting on
    nAttempts,   \* history: number of pickups of the notification task
    nPosts,      \* history: number of POSTs sent for the notification task
    nDelivered,  \* history: some POST of the notification task was answered 2xx
    fnIn,        \* the argument of a function of the Processor applied on its own
    fnOut,       \* the value it returned
    timing,      \* the clock readings of one invocation of the handler
    run          \* one call of FFmpegRunner.Run: the child, the pipes, the parser

brokerVars == <<tState, tPayload, tRetried, tLastErr, tOpts>>
notifVars  == <<nState, nPayload, nOpts, nRetried, nLastErr, nInv, nAttempts, nPosts,
                nDelivered>>
fsVars     == <<dirExists, files>>
pureVars   == <<fnIn, fnOut, timing, run>>
vars == <<tState, tPayload, tRetried, tLastErr, tOpts, tResult, cur, invs, dirExists,
          files, storage, webhooks, response, resourceCheckEnabled,
          attempts, writes, strayWrite, strayNotify, doneEvents,
          onlyDownloadFailures, cancelUnmarked, nState, nPayload, nOpts, nRetried,
          nLastErr, nInv, nAttempts, nPosts, nDelivered, fnIn, fnOut, timing, run>>
histVars == <<attempts, writes, strayWrite, strayNotify, doneEvents,
              onlyDownloadFailures>>

----------------------------------------------------------------------------
(* Bounds and program constants *)

MaxOrphans == 1

\* TASK_MAX_RETRY (default 2), the budget the model runs with; the task is followed
\* for TaskMaxRetry + 1 pickups
TaskMaxRetry == 1
MaxAttempts == TaskMaxRetry + 1
MaxMemoryPercent == 85
TaskTimeoutMinutes == 30
TaskRetentionHours == 24
WebhookMaxRetry == 5
WebhookRetentionHours == 72

CommandID == "id1"
CommandResult0 ==
    [output_files |-> <<>>, ffmpeg_command_run_seconds |-> "0",
     total_processing_seconds |-> "0", completed_at |-> "0001-01-01T00:00:00Z",
     hardware_acceleration |-> ""]
NoResult == [written |-> FALSE, blob |-> CommandResult0]
NoResponse == [code |-> 0, error |-> ""]
NoOpts == [queue |-> "", max_retry |-> 0, timeout |-> 0, retention |-> 0]

----------------------------------------------------------------------------
(* Strings *)

Contains(s, sub) ==
    \E i \in 0..(Len(s) - Len(sub)) : SubSeq(s, i + 1, i + Len(sub)) = sub

ItoA(n) == CASE n = 1 -> "1" [] n = 2 -> "2" [] n = 3 -> "3" [] OTHER -> "n"

EmptyMap == [k \in {} |-> ""]

----------------------------------------------------------------------------
(* Intake: POST /v1/commands *)

Opt(set, value) == [Set |-> set, Value |-> value]
Unset == Opt(FALSE, <<>>)

\* oas.CommandRequest as decoded from the request body
Request(inputs, outputs, cmd, cmds, webhook, ref) ==
    [InputFiles |-> inputs, OutputFiles |-> outputs, FfmpegCommand |-> cmd,
     FfmpegCommands |-> cmds, Webhook |-> webhook, ReferenceID |-> ref]

In1 == [k \in {"in_1"} |-> <<"http://srv/v", ".", "m", "p", "4">>]
InRL == [k \in {"resource limit"} |-> <<"http://srv/v", ".", "m", "p", "4">>]
Out1 == [k \in {"out_1"} |-> <<"t", ".", "j", "p", "g">>]
Out2 == [k \in {"out_1", "out_2"} |->
            IF k = "out_1" THEN <<"a", ".", "J", "P", "G">> ELSE <<"b", ".", "g", "i", "f">>]
Cmd12 == <<"-i ", "{{", "in_1", "}}", " -vframes 1 ", "{{", "out_1", "}}",
           " -vf fps=10 -t 5 ", "{{", "out_2", "}}">>
CmdRL == <<"-i ", "{{", "resource limit", "}}", " -vframes 1 ", "{{", "out_1", "}}">>
Cmd1 == <<"-i ", "{{", "in_1", "}}", " -vframes 1 ", "{{", "out_1", "}}">>
\* an output file name that is not a basename
OutUp == [k \in {"out_1"} |-> <<"..", "/", "x", ".", "j", "p", "g">>]
Hook == <<"https://yourapp.com/webhook">>

Requests ==
    { Request(Opt(TRUE, In1), Out2, Opt(TRUE, Cmd12), <<>>, Opt(TRUE, Hook),
              Opt(TRUE, <<"ref-7">>)),
      Request(Opt(TRUE, InRL), Out1, Unset, <<CmdRL, CmdRL>>, Unset, Unset),
      Request(Opt(TRUE, In1), OutUp, Opt(TRUE, Cmd1), <<>>, Unset, Unset),
      Request(Opt(TRUE, In1), EmptyMap, Opt(TRUE, Cmd12), <<>>, Unset, Unset),
      Request(Unset, Out1, Unset, <<>>, Unset, Unset) }

\* mutant: the reference id is not carried into the payload
WorkerRequest_noReference(req) ==
    [input_files     |-> IF req.InputFiles.Set THEN req.InputFiles.Value ELSE EmptyMap,
     output_files    |-> req.OutputFiles,
     ffmpeg_command  |-> IF req.FfmpegCommand.Set THEN req.FfmpegCommand.Value ELSE <<>>,
     ffmpeg_commands |-> IF Len(req.FfmpegCommands) > 0 THEN req.FfmpegCommands ELSE <<>>,
     webhook         |-> IF req.Webhook.Set THEN req.Webhook.Value ELSE <<>>,
     reference_id    |-> <<>>]

\* WorkerCommandRequest built by CreateCommand from the request
WorkerRequest(req) ==
    [input_files     |-> IF req.InputFiles.Set THEN req.InputFiles.Value ELSE EmptyMap,
     output_files    |-> req.OutputFiles,
     ffmpeg_command  |-> IF req.FfmpegCommand.Set THEN req.FfmpegCommand.Value ELSE <<>>,
     ffmpeg_commands |-> IF Len(req.FfmpegCommands) > 0 THEN req.FfmpegCommands ELSE <<>>,
     webhook         |-> IF req.Webhook.Set THEN req.Webhook.Value ELSE <<>>,
     reference_id    |-> IF req.ReferenceID.Set THEN req.ReferenceID.Value ELSE <<>>]

\* json.Marshal of a WorkerCommandRequest: omitempty drops the empty fields
OmitEmpty == {"ffmpeg_command", "ffmpeg_commands", "webhook", "reference_id"}
Marshal(w) ==
    LET keep == {f \in DOMAIN w : f \notin OmitEmpty \/ w[f] # <<>>}
    IN  [f \in keep |-> w[f]]

\* The payload bytes of a task: the JSON object, or bytes json.Unmarshal rejects
Payload(obj) == [json |-> TRUE, obj |-> obj]
Garbage == [json |-> FALSE]
Decodable(p) == p.json

\* json.Unmarshal into a CommandRequest: absent fields keep their zero value
RequestFields ==
    {"input_files", "output_files", "ffmpeg_command", "ffmpeg_commands",
     "webhook", "reference_id"}
Unmarshal(p) ==
    [f \in RequestFields |-> IF f \in DOMAIN p.obj THEN p.obj[f] ELSE <<>>]

\* mutant: output_files is looked at before the command fields
Validate_outputsFirst(req) ==
    IF Cardinality(DOMAIN req.OutputFiles) = 0
    THEN "output_files required"
    ELSE IF ~req.FfmpegCommand.Set /\ Len(req.FfmpegCommands) = 0
    THEN "ffmpeg_command or ffmpeg_commands required"
    ELSE ""

\* The validation of CreateCommand: the error of the 400 answer, "" if the request passes
Validate(req) ==
    IF ~req.FfmpegCommand.Set /\ Len(req.FfmpegCommands) = 0
    THEN "ffmpeg_command or ffmpeg_commands required"
    ELSE IF Cardinality(DOMAIN req.OutputFiles) = 0
    THEN "output_files required"
    ELSE ""

\* the options of asynqClient.Enqueue (lines 265-270)
TaskOptions ==
    [queue |-> "ffmpeg", max_retry |-> TaskMaxRetry, timeout |-> TaskTimeoutMinutes,
     retention |-> TaskRetentionHours]

CreateCommand(req, enqueueOk) ==
    /\ tState = "none"
    /\ IF Validate(req) # ""
       THEN /\ response' = [code |-> 400, error |-> Validate(req)]
            /\ UNCHANGED brokerVars
       ELSE IF ~enqueueOk
       THEN /\ response' = [code |-> 500, error |-> "enqueue failed"]
            /\ UNCHANGED brokerVars
       ELSE /\ tState' = "pending"
            /\ tPayload' = Payload(Marshal(WorkerRequest(req)))
            /\ tOpts' = TaskOptions
            /\ tRetried' = 0
            /\ tLastErr' = <<>>
            /\ response' = [code |-> 200, command_id |-> CommandID, status |-> "PENDING",
                            reference_id |-> req.ReferenceID]
    /\ UNCHANGED <<tResult, cur, invs, dirExists, files, storage, webhooks,
                   resourceCheckEnabled, notifVars, pureVars,
                   cancelUnmarked, histVars>>

\* Any other client of the broker putting bytes on queue `ffmpeg` that do not decode
EnqueueUndecodable ==
    /\ tState = "none"
    /\ tState' = "pending"
    /\ tPayload' = Garbage
    /\ tOpts' = TaskOptions
    /\ tRetried' = 0
    /\ tLastErr' = <<>>
    /\ UNCHANGED <<tResult, cur, invs, dirExists, files, storage, webhooks, response,
                   resourceCheckEnabled, notifVars, pureVars,
                   cancelUnmarked, histVars>>

----------------------------------------------------------------------------
(* Processor: resource probe, error classification, output metadata *)

MemorySamples == {50, 85, 86}

\* strconv.FormatFloat(usage, 'f', 1, 64)
FormatFloat(u) ==
    CASE u = 50 -> "50.0" [] u = 85 -> "85.0" [] u = 86 -> "86.0" [] OTHER -> "?"

CheckResourcesAvailable_atLeast(maxMemoryPercent, usage) ==
    IF usage >= maxMemoryPercent
    THEN [ok |-> FALSE,
          reason |-> <<"memory usage too high: ", FormatFloat(usage), "%">>]
    ELSE [ok |-> TRUE, reason |-> <<>>]

CheckResourcesAvailable(maxMemoryPercent, usage) ==
    IF usage > maxMemoryPercent
    THEN [ok |-> FALSE,
          reason |-> <<"memory usage too high: ", FormatFloat(usage), "%">>]
    ELSE [ok |-> TRUE, reason |-> <<>>]

\* mutant: a server configured without IsFailure charges every error
IsFailure_default(err) == TRUE

\* asynq.Config.IsFailure of the worker
IsFailure(err) == ~Contains(err, <<"resource limit">>)

\* filepath.Ext: the suffix from the final dot of the last element, "" if there is
\* none; an extension is spelled in one-character strings
RECURSIVE Ext(_)
Ext(name) ==
    IF name = <<>> THEN <<>>
    ELSE IF name[Len(name)] = "/" THEN <<>>
    ELSE IF name[Len(name)] = "." THEN <<".">>
    ELSE LET e == Ext(SubSeq(name, 1, Len(name) - 1))
         IN  IF e = <<>> THEN <<>> ELSE Append(e, name[Len(name)])

\* the elements of a path string, split at its separators
RECURSIVE Elements(_)
Elements(str) ==
    IF str = <<>> THEN <<<<>>>>
    ELSE LET rest == Elements(Tail(str))
         IN  IF Head(str) = "/" THEN <<<<>>>> \o rest
             ELSE <<<<Head(str)>> \o rest[1]>> \o Tail(rest)

\* filepath.Clean on a rooted path: done is the clean path so far, a sequence of
\* elements; empty elements and "." are dropped, ".." drops the element before it
RECURSIVE Clean(_, _)
Clean(done, elems) ==
    IF elems = <<>> THEN done
    ELSE LET e == Head(elems)
         IN  IF e = <<>> \/ e = <<".">> THEN Clean(done, Tail(elems))
             ELSE IF e = <<"..">>
             THEN Clean(IF done = <<>> THEN <<>> ELSE SubSeq(done, 1, Len(done) - 1),
                        Tail(elems))
             ELSE Clean(Append(done, e), Tail(elems))

\* filepath.Join(dir, name) for a clean rooted dir
Join(dir, name) == Clean(dir, Elements(name))

\* WORK_DIR (default) and the workspace of a command (line 545)
WorkDir == <<<<"tmp">>, <<"ffmpeg-jobs">>>>
JobDir(commandID) == Join(WorkDir, <<commandID>>)

\* path lies below dir
Inside(path, dir) == Len(path) > Len(dir) /\ SubSeq(path, 1, Len(dir)) = dir

\* outputPaths[key] = filepath.Join(jobDir, filename) (line 574)
OutputPath(commandID, filename) == Join(JobDir(commandID), filename)

\* extension of the local copy of an input (lines 555-558)
InputExt(url) ==
    IF Ext(url) = <<>> \/ Len(Ext(url)) > 5 THEN <<".", "m", "p", "4">> ELSE Ext(url)

\* strings.TrimPrefix(s, prefix), prefix one character long
TrimPrefix(s, prefix) == IF s # <<>> /\ s[1] = prefix THEN Tail(s) ELSE s

\* strings.ToLower on the letters A-Z
Uppers ==
    <<"A", "B", "C", "D", "E", "F", "G", "H", "I", "J", "K", "L", "M", "N", "O", "P",
      "Q", "R", "S", "T", "U", "V", "W", "X", "Y", "Z">>
Lowers ==
    <<"a", "b", "c", "d", "e", "f", "g", "h", "i", "j", "k", "l", "m", "n", "o", "p",
      "q", "r", "s", "t", "u", "v", "w", "x", "y", "z">>
LowerRune(r) ==
    IF \E i \in 1..Len(Uppers) : Uppers[i] = r
    THEN Lowers[CHOOSE i \in 1..Len(Uppers) : Uppers[i] = r]
    ELSE r
ToLower(str) == [i \in 1..Len(str) |-> LowerRune(str[i])]

\* the case lists of getFileType (lines 784, 786, 788, 790)
ImageExts    ==
    {<<"j", "p", "g">>, <<"j", "p", "e", "g">>, <<"p", "n", "g">>, <<"g", "i", "f">>,
     <<"w", "e", "b", "p">>, <<"b", "m", "p">>, <<"t", "i", "f", "f">>}
VideoExts    ==
    {<<"m", "p", "4">>, <<"m", "o", "v">>, <<"a", "v", "i">>, <<"m", "k", "v">>,
     <<"w", "e", "b", "m">>, <<"f", "l", "v">>, <<"w", "m", "v">>}
AudioExts    ==
    {<<"m", "p", "3">>, <<"w", "a", "v">>, <<"a", "a", "c">>, <<"f", "l", "a", "c">>,
     <<"o", "g", "g">>, <<"m", "4", "a">>}
SubtitleExts ==
    {<<"s", "r", "t">>, <<"v", "t", "t">>, <<"a", "s", "s">>, <<"s", "s", "a">>}

getFileType_caseSensitive(ext) ==
    LET e == ext IN
    IF e \in ImageExts THEN "image"
    ELSE IF e \in VideoExts THEN "video"
    ELSE IF e \in AudioExts THEN "audio"
    ELSE IF e \in SubtitleExts THEN "subtitle"
    ELSE "file"

getFileType(ext) ==
    LET e == ToLower(ext) IN
    IF e \in ImageExts THEN "image"
    ELSE IF e \in VideoExts THEN "video"
    ELSE IF e \in AudioExts THEN "audio"
    ELSE IF e \in SubtitleExts THEN "subtitle"
    ELSE "file"

\* destination key handed to the storage adapter (line 649)
DestPath(commandID, filename) == <<commandID, "_">> \o filename

\* FileAdapter.Upload's return value without STORAGE_BASE_URL
StorageURL(destPath) == <<"/tmp/ffmpeg-output", "/">> \o destPath

\* mutant: the file id built like the destination key, from the file name
OutputInfo_byFilename(commandID, key, filename, storageURL) ==
    [file_id     |-> DestPath(commandID, filename),
     file_type   |-> getFileType(TrimPrefix(Ext(filename), ".")),
     file_format |-> TrimPrefix(Ext(filename), "."),
     storage_url |-> storageURL]

\* the OutputFileInfo recorded for one output (lines 657-667)
OutputInfo(commandID, key, filename, storageURL) ==
    [file_id     |-> <<commandID, "_", key>>,
     file_type   |-> getFileType(TrimPrefix(Ext(filename), ".")),
     file_format |-> TrimPrefix(Ext(filename), "."),
     storage_url |-> storageURL]

\* the commands to run (lines 578-584)
Commands(req) ==
    IF Len(req.ffmpeg_commands) > 0 THEN req.ffmpeg_commands
    ELSE IF req.ffmpeg_command # <<>> THEN <<req.ffmpeg_command>>
    ELSE <<>>

\* the CommandResult of an invocation (lines 681-687)
CommandResult(outputFiles) ==
    [output_files               |-> outputFiles,
     ffmpeg_command_run_seconds |-> "ffmpegDuration",
     total_processing_seconds   |-> "totalDuration",
     completed_at               |-> "time.Now()",
     hardware_acceleration      |-> "none"]

\* the WebhookPayload built by enqueueWebhook (lines 701-716)
WebhookPayload_noFiles(url, commandID, result, req) ==
    [url        |-> url,
     command_id |-> commandID,
     status     |-> "SUCCESS",
     body       |-> [command_id                 |-> commandID,
                     status                     |-> "SUCCESS",
                     output_files               |-> EmptyMap,
                     original_request           |-> req,
                     ffmpeg_command_run_seconds |-> result.ffmpeg_command_run_seconds,
                     total_processing_seconds   |-> result.total_processing_seconds,
                     hardware_acceleration      |-> result.hardware_acceleration]]

WebhookPayload(url, commandID, result, req) ==
    [url        |-> url,
     command_id |-> commandID,
     status     |-> "SUCCESS",
     body       |-> [command_id                 |-> commandID,
                     status                     |-> "SUCCESS",
                     output_files               |-> result.output_files,
                     original_request           |-> req,
                     ffmpeg_command_run_seconds |-> result.ffmpeg_command_run_seconds,
                     total_processing_seconds   |-> result.total_processing_seconds,
                     hardware_acceleration      |-> result.hardware_acceleration]]

\* json.Marshal(payload) (line 718): the request inside the body is written with
\* the omitempty rules of CommandRequest
MarshalWebhook(payload) ==
    [payload EXCEPT !.body.original_request = Marshal(@)]

\* what the external tool and the storage service may answer with
ToolOutputs ==
    { <<"Conversion failed!">>,
      <<"resource limit", ".mp4: Invalid data found when processing input">> }
UploadErrors == { <<"upload failed (status 507): ", "quota exceeded">> }

\* ctx.Err() of a task context: nil, context.DeadlineExceeded, context.Canceled
CtxErr(ctx) ==
    CASE ctx = "deadline" -> <<"context deadline exceeded">>
      [] ctx = "canceled" -> <<"context ", "canceled">>
      [] OTHER -> <<>>

----------------------------------------------------------------------------
(* Processor: handleFFmpegCommand, one action per step of an invocation *)

NewInvocation ==
    [pc |-> "start", ctx |-> "live", inputPaths |-> EmptyMap, cmdIdx |-> 0,
     outputFiles |-> EmptyMap, err |-> <<>>, exit |-> "", events |-> <<>>]

Has(events, e) == \E i \in 1..Len(events) : events[i] = e

Running(a) == a \in DOMAIN invs /\ invs[a].pc # "returned"

\* The handler returns err. The deferred os.RemoveAll(jobDir) runs if it was
\* registered. The value is received only by a broker still waiting on the invocation.
Finish(a, err, exit, cleanup) ==
    /\ invs' = IF a = cur
               THEN [invs EXCEPT ![a].pc = "returned", ![a].err = err, ![a].exit = exit]
               ELSE [b \in DOMAIN invs \ {a} |-> invs[b]]
    /\ IF cleanup
       THEN /\ dirExists' = FALSE
            /\ files' = {f \in files : ~Inside(f, JobDir(CommandID))}
       ELSE UNCHANGED fsVars
    /\ cancelUnmarked' = (cancelUnmarked \/ (/\ invs[a].ctx # "live"
                                              /\ ~Has(invs[a].events, "write")
                                              /\ ~Contains(err, <<"cancelled">>)
                                              /\ ~Contains(err, <<"canceled">>)))

\* lines 529-550: admission, decode, workspace
Start(a, usage) ==
    /\ Running(a) /\ invs[a].pc = "start"
    /\ LET chk == CheckResourcesAvailable(MaxMemoryPercent, usage) IN
       IF resourceCheckEnabled /\ ~chk.ok
       THEN Finish(a, <<"resource limit", ": ">> \o chk.reason, "admission", FALSE)
       ELSE IF ~Decodable(tPayload)
       THEN Finish(a, <<"unmarshal", ": ", "invalid character">>, "decode", FALSE)
       ELSE /\ invs' = [invs EXCEPT ![a].pc = "download"]
            /\ dirExists' = TRUE
            /\ UNCHANGED <<files, cancelUnmarked>>
    /\ UNCHANGED <<brokerVars, tResult, cur, storage, webhooks, response,
                   resourceCheckEnabled, notifVars, pureVars, histVars>>

\* lines 554-566: one iteration of the download loop (map order: any remaining key)
Download(a, k, res) ==
    /\ Running(a) /\ invs[a].pc = "download"
    /\ LET req == Unmarshal(tPayload)
           inv == invs[a]
           localPath == Join(JobDir(CommandID), <<k>> \o InputExt(req.input_files[k]))
           cause == IF inv.ctx # "live" THEN CtxErr(inv.ctx)
                    ELSE IF res = "status" THEN <<"status 500">>
                    ELSE IF ~dirExists THEN <<"open: no such file or directory">>
                    ELSE <<>>
       IN  /\ k \in DOMAIN req.input_files \ DOMAIN inv.inputPaths
           /\ IF cause # <<>>
              THEN Finish(a, <<"download ", k, ": ">> \o cause, "download", TRUE)
              ELSE /\ invs' = [invs EXCEPT ![a].inputPaths = @ @@ (k :> localPath)]
                   /\ files' = files \cup {localPath}
                   /\ UNCHANGED <<dirExists, cancelUnmarked>>
    /\ UNCHANGED <<brokerVars, tResult, cur, storage, webhooks, response,
                   resourceCheckEnabled, notifVars, pureVars, histVars>>

\* lines 568-596: after the last download
DownloadsDone(a) ==
    /\ Running(a) /\ invs[a].pc = "download"
    /\ DOMAIN invs[a].inputPaths = DOMAIN Unmarshal(tPayload).input_files
    /\ IF invs[a].ctx # "live"
       THEN Finish(a, <<"command ", "cancelled">>, "cancelled", TRUE)
       ELSE /\ invs' = [invs EXCEPT ![a].pc = "run", ![a].cmdIdx = 1]
            /\ UNCHANGED <<fsVars, cancelUnmarked>>
    /\ UNCHANGED <<brokerVars, tResult, cur, storage, webhooks, response,
                   resourceCheckEnabled, notifVars, pureVars, histVars>>

\* the output files a command names through its placeholders
Named(cmd, outputs) ==
    {OutputPath(CommandID, outputs[k]) :
        k \in {x \in DOMAIN outputs : Contains(cmd, <<"{{", x, "}}">>)}}

\* lines 597-633: one command of the chain; a tool that exits 0 has written the
\* outputs the command names (produced) or has written nothing
RunCommand(a, ok, produced, output) ==
    /\ Running(a) /\ invs[a].pc = "run"
    /\ LET req == Unmarshal(tPayload)
           inv == invs[a]
       IN  /\ inv.cmdIdx <= Len(Commands(req))
           /\ IF ok /\ inv.ctx = "live"
              THEN /\ produced =>
                        \/ dirExists
                        \/ \A f \in Named(Commands(req)[inv.cmdIdx], req.output_files) :
                              ~Inside(f, JobDir(CommandID))
                   /\ invs' = [invs EXCEPT ![a].cmdIdx = @ + 1]
                   /\ files' = IF produced
                               THEN files \cup Named(Commands(req)[inv.cmdIdx],
                                                     req.output_files)
                               ELSE files
                   /\ UNCHANGED <<dirExists, cancelUnmarked>>
              ELSE /\ ~produced
                   /\ IF inv.ctx # "live"
                      THEN Finish(a, <<"command ", "cancelled", " during encoding">>,
                                  "cancelled", TRUE)
                      ELSE Finish(a, <<"ffmpeg failed (command ", ItoA(inv.cmdIdx), "): ",
                                       "exit status 1", "\n">> \o output, "ffmpeg", TRUE)
    /\ UNCHANGED <<brokerVars, tResult, cur, storage, webhooks, response,
                   resourceCheckEnabled, notifVars, pureVars, histVars>>

CommandsDone_early(a) ==
    /\ Running(a) /\ invs[a].pc = "run"
    /\ invs[a].cmdIdx > 1
    /\ IF invs[a].ctx # "live"
       THEN Finish(a, <<"command ", "cancelled">>, "cancelled", TRUE)
       ELSE /\ invs' = [invs EXCEPT ![a].pc = "collect"]
            /\ UNCHANGED <<fsVars, cancelUnmarked>>
    /\ UNCHANGED <<brokerVars, tResult, cur, storage, webhooks, response,
                   resourceCheckEnabled, notifVars, pureVars, histVars>>

\* lines 634-638: after the last command
CommandsDone(a) ==
    /\ Running(a) /\ invs[a].pc = "run"
    /\ invs[a].cmdIdx > Len(Commands(Unmarshal(tPayload)))
    /\ IF invs[a].ctx # "live"
       THEN Finish(a, <<"command ", "cancelled">>, "cancelled", TRUE)
       ELSE /\ invs' = [invs EXCEPT ![a].pc = "collect"]
            /\ UNCHANGED <<fsVars, cancelUnmarked>>
    /\ UNCHANGED <<brokerVars, tResult, cur, storage, webhooks, response,
                   resourceCheckEnabled, notifVars, pureVars, histVars>>

\* lines 642-677: one iteration of the output loop (map order: any remaining key)
Collect(a, k, uploaded, cause) ==
    /\ Running(a) /\ invs[a].pc = "collect"
    /\ LET req == Unmarshal(tPayload)
           inv == invs[a]
       IN  /\ k \in DOMAIN req.output_files \ DOMAIN inv.outputFiles
           /\ LET filename == req.output_files[k]
                  destPath == DestPath(CommandID, filename)
              IN  IF OutputPath(CommandID, filename) \notin files
                  THEN /\ Finish(a, <<"output ", k, " not created: ",
                                      "stat: no such file or directory">>, "missing", TRUE)
                       /\ UNCHANGED storage
                  ELSE IF ~uploaded
                  THEN /\ Finish(a, <<"upload output ", k, ": ">> \o cause, "upload", TRUE)
                       /\ UNCHANGED storage
                  ELSE /\ storage' = storage \cup {destPath}
                       /\ invs' = [invs EXCEPT ![a].outputFiles =
                                      @ @@ (k :> OutputInfo(CommandID, k, filename,
                                                            StorageURL(destPath)))]
                       /\ UNCHANGED <<fsVars, cancelUnmarked>>
    /\ UNCHANGED <<brokerVars, tResult, cur, webhooks, response,
                   resourceCheckEnabled, notifVars, pureVars, histVars>>

\* enqueueWebhook (lines 700-736): the queue `webhooks` after the call; an enqueue
\* error is logged and dropped
enqueueWebhook(queue, url, commandID, result, req, enqueued) ==
    IF enqueued
    THEN Append(queue, Payload(MarshalWebhook(WebhookPayload(url, commandID, result, req))))
    ELSE queue

\* mutant: the notification is enqueued whether or not the command asks for one
WantsWebhook_always(req) == TRUE

\* line 689: the command carries a webhook
WantsWebhook(req) == req.webhook # <<>>

\* lines 679-691: the result is built and, for a command with a webhook, the
\* notification is enqueued
Notify(a, enqueued) ==
    /\ Running(a) /\ invs[a].pc = "collect"
    /\ LET req == Unmarshal(tPayload)
           inv == invs[a]
       IN  /\ DOMAIN inv.outputFiles = DOMAIN req.output_files
           /\ webhooks' = IF WantsWebhook(req)
                          THEN enqueueWebhook(webhooks, req.webhook, CommandID,
                                              CommandResult(inv.outputFiles), req, enqueued)
                          ELSE webhooks
           /\ invs' = [invs EXCEPT ![a].pc = "write",
                                   ![a].events =
                                       IF webhooks' # webhooks THEN Append(@, "enqueue")
                                       ELSE IF WantsWebhook(req)
                                       THEN Append(@, "enqueue failed")
                                       ELSE @]
           /\ strayNotify' = (strayNotify \/ (a # cur /\ webhooks' # webhooks))
    /\ UNCHANGED <<brokerVars, tResult, cur, dirExists, files, storage, response,
                   resourceCheckEnabled, notifVars, pureVars,
                   cancelUnmarked, attempts, writes, strayWrite,
                   doneEvents, onlyDownloadFailures>>

\* lines 693-694: t.ResultWriter().Write; the writer refuses once the task context is
\* done, the broker write itself may fail, and the handler ignores both
WriteResult(a, stored) ==
    /\ Running(a) /\ invs[a].pc = "write"
    /\ IF invs[a].ctx = "live" /\ stored
       THEN /\ tResult' = [written |-> TRUE,
                           blob |-> CommandResult(invs[a].outputFiles)]
            /\ writes' = writes + 1
            /\ strayWrite' = (strayWrite \/ a # cur)
            /\ invs' = [invs EXCEPT ![a].pc = "ret", ![a].events = Append(@, "write")]
       ELSE /\ invs' = [invs EXCEPT ![a].pc = "ret"]
            /\ UNCHANGED <<tResult, writes, strayWrite>>
    /\ UNCHANGED <<brokerVars, cur, dirExists, files, storage, webhooks, response,
                   resourceCheckEnabled, notifVars, pureVars,
                   cancelUnmarked, attempts, strayNotify, doneEvents,
                   onlyDownloadFailures>>

\* lines 696-697: return nil
Return(a) ==
    /\ Running(a) /\ invs[a].pc = "ret"
    /\ Finish(a, <<>>, "ok", TRUE)
    /\ UNCHANGED <<brokerVars, tResult, cur, storage, webhooks, response,
                   resourceCheckEnabled, notifVars, pureVars, histVars>>

----------------------------------------------------------------------------
(* Broker: the life of the task on queue `ffmpeg` *)

\* the attempts the broker has settled
Settled == IF cur # 0 THEN attempts - 1 ELSE attempts

\* a worker leases the pending task and calls the handler
Dequeue ==
    /\ tState = "pending"
    /\ attempts < MaxAttempts
    /\ tState' = "active"
    /\ attempts' = attempts + 1
    /\ cur' = attempts + 1
    /\ invs' = invs @@ ((attempts + 1) :> NewInvocation)
    /\ UNCHANGED <<tPayload, tOpts, tRetried, tLastErr, tResult, dirExists, files, storage,
                   webhooks, response, resourceCheckEnabled, notifVars, pureVars,
                   cancelUnmarked, writes, strayWrite,
                   strayNotify, doneEvents, onlyDownloadFailures>>

\* a failed attempt: retried without charge if IsFailure says so, else charged, or
\* archived once the budget is spent
HandleFailed(err) ==
    /\ tLastErr' = err
    /\ IF ~IsFailure(err)
       THEN /\ tState' = "retry"
            /\ UNCHANGED tRetried
       ELSE IF tRetried >= tOpts.max_retry
       THEN /\ tState' = "archived"
            /\ UNCHANGED tRetried
       ELSE /\ tState' = "retry"
            /\ tRetried' = tRetried + 1
    /\ UNCHANGED <<tPayload, tOpts>>
    /\ strayWrite' = (strayWrite \/ Has(invs[cur].events, "write"))
    /\ strayNotify' = (strayNotify \/ Has(invs[cur].events, "enqueue"))
    /\ UNCHANGED doneEvents

\* the handler's return value reaches the broker
HandleReturn ==
    /\ cur # 0 /\ invs[cur].pc = "returned"
    /\ IF invs[cur].err = <<>>
       THEN /\ tState' = "completed"
            /\ doneEvents' = invs[cur].events
            /\ UNCHANGED <<tPayload, tOpts, tRetried, tLastErr, strayWrite, strayNotify>>
       ELSE HandleFailed(invs[cur].err)
    /\ onlyDownloadFailures' = (onlyDownloadFailures /\ invs[cur].exit = "download")
    /\ invs' = [b \in DOMAIN invs \ {cur} |-> invs[b]]
    /\ cur' = 0
    /\ UNCHANGED <<tResult, dirExists, files, storage, webhooks, response,
                   resourceCheckEnabled, notifVars, pureVars,
                   cancelUnmarked, attempts, writes>>

\* the task's timeout fires ("deadline") or its lease is lost ("canceled") before the
\* broker has taken the handler's return value: the context is cancelled, the attempt
\* is settled as failed, and the invocation runs on unattended
Cancel(why) ==
    /\ cur # 0
    /\ invs[cur].pc = "returned" \/ Cardinality(DOMAIN invs) <= MaxOrphans
    /\ HandleFailed(IF why = "deadline" THEN CtxErr(why)
                    ELSE <<"asynq: task lease expired">>)
    /\ onlyDownloadFailures' = FALSE
    /\ invs' = IF invs[cur].pc = "returned"
               THEN [b \in DOMAIN invs \ {cur} |-> invs[b]]
               ELSE [invs EXCEPT ![cur].ctx = why]
    /\ cur' = 0
    /\ UNCHANGED <<tResult, dirExists, files, storage, webhooks, response,
                   resourceCheckEnabled, notifVars, pureVars,
                   cancelUnmarked, attempts, writes>>

\* the retry delay of the task has elapsed
Forward ==
    /\ tState = "retry"
    /\ tState' = "pending"
    /\ UNCHANGED <<tPayload, tOpts, tRetried, tLastErr, tResult, cur, invs, dirExists, files,
                   storage, webhooks, response, resourceCheckEnabled, notifVars, pureVars,
                   cancelUnmarked, histVars>>

----------------------------------------------------------------------------
(* Notifier: handleWebhookDeliver and the life of a task on queue `webhooks` *)

workerVars == <<brokerVars, tResult, cur, invs, dirExists, files, storage, webhooks,
                response, resourceCheckEnabled, histVars, cancelUnmarked>>

NoDelivery == [pc |-> "idle", posted |-> FALSE, body |-> EmptyMap, resp |-> 0, err |-> <<>>]

\* the options of webhookClient.Enqueue (worker main.go lines 725-729)
WebhookOptions ==
    [queue |-> "webhooks", max_retry |-> WebhookMaxRetry, timeout |-> 0,
     retention |-> WebhookRetentionHours]

\* the payloads enqueueWebhook puts on the queue for the commands with a webhook
NotificationPayloads ==
    { enqueueWebhook(<<>>, w.webhook, CommandID,
                 CommandResult([k \in DOMAIN w.output_files |->
                     OutputInfo(CommandID, k, w.output_files[k],
                                StorageURL(DestPath(CommandID, w.output_files[k])))]),
                 w, TRUE)[1] :
        w \in { Unmarshal(Payload(Marshal(WorkerRequest(r)))) :
                  r \in {x \in Requests : Validate(x) = "" /\ x.Webhook.Set} } }

\* webhookClient.Enqueue succeeded: the notification task exists
EnqueueNotification(p) ==
    /\ nState = "none"
    /\ nState' = "pending"
    /\ nPayload' = p
    /\ nOpts' = WebhookOptions
    /\ nRetried' = 0
    /\ nLastErr' = <<>>
    /\ UNCHANGED <<nInv, nAttempts, nPosts, nDelivered, workerVars, pureVars>>

\* what the endpoint answers: 0 is a transport error, else the status code
PostOutcomes == {0, 200, 204, 300, 404, 500}

\* %d of the status code
FormatStatus(code) ==
    CASE code = 200 -> "200" [] code = 204 -> "204" [] code = 300 -> "300"
      [] code = 404 -> "404" [] code = 500 -> "500" [] OTHER -> "?"

\* mutant: a 300 answer passes for a delivery
Non2xx_above300(code) == code < 200 \/ code > 300

\* line 121: resp.StatusCode < 200 || resp.StatusCode >= 300
Non2xx(code) == code < 200 \/ code >= 300

\* mutant: no answer of the endpoint is an error
DeliveryError_none(posted, outcome) == <<>>

\* the error handleWebhookDeliver returns (lines 89-126), <<>> for nil
DeliveryError(posted, outcome) ==
    IF ~posted THEN <<"unmarshal payload: ", "invalid character">>
    ELSE IF outcome = 0
    THEN <<"http request failed: ", "Post: dial tcp: connection refused">>
    ELSE IF Non2xx(outcome)
    THEN <<"webhook returned non-2xx status: ", FormatStatus(outcome)>>
    ELSE <<>>

\* a worker of the Notifier leases the pending task and calls the handler
DequeueNotification ==
    /\ nState = "pending"
    /\ nState' = "active"
    /\ nInv' = [NoDelivery EXCEPT !.pc = "start"]
    /\ nAttempts' = nAttempts + 1
    /\ UNCHANGED <<nPayload, nOpts, nRetried, nLastErr, nPosts, nDelivered, workerVars, pureVars>>

\* json.Unmarshal into a WebhookPayload (webhooks/main.go:89-92); Body is a
\* map[string]any and takes the body object as it is
UnmarshalWebhook(p) == p.obj

\* the body of the POST: json.Marshal(payload.Body) (webhooks/main.go:96), the
\* object of the decoded map
PostBody(payload) == [f \in DOMAIN payload.body |-> payload.body[f]]

\* handleWebhookDeliver (lines 88-127): decode, one POST, classification of the answer
handleWebhookDeliver(outcome) ==
    /\ nInv.pc = "start"
    /\ LET posted == Decodable(nPayload) IN
       /\ nInv' = [pc |-> "returned", posted |-> posted,
                   body |-> IF posted THEN PostBody(UnmarshalWebhook(nPayload))
                            ELSE EmptyMap,
                   resp |-> IF posted THEN outcome ELSE 0,
                   err |-> DeliveryError(posted, outcome)]
       /\ nPosts' = IF posted THEN nPosts + 1 ELSE nPosts
       /\ nDelivered' = (nDelivered \/ (posted /\ outcome \in 200..299))
    /\ UNCHANGED <<nState, nPayload, nOpts, nRetried, nLastErr, nAttempts, workerVars, pureVars>>

\* the handler's return value reaches the broker: nil completes the task, an error is
\* charged and retried, or archived once the budget is spent (no IsFailure configured)
HandleDelivery ==
    /\ nInv.pc = "returned"
    /\ IF nInv.err = <<>>
       THEN /\ nState' = "completed"
            /\ UNCHANGED <<nRetried, nLastErr>>
       ELSE /\ nLastErr' = nInv.err
            /\ IF nRetried >= nOpts.max_retry
               THEN nState' = "archived" /\ UNCHANGED nRetried
               ELSE nState' = "retry" /\ nRetried' = nRetried + 1
    /\ nInv' = NoDelivery
    /\ UNCHANGED <<nPayload, nOpts, nAttempts, nPosts, nDelivered, workerVars, pureVars>>

\* the retry delay of the notification task has elapsed
ForwardNotification ==
    /\ nState = "retry"
    /\ nState' = "pending"
    /\ UNCHANGED <<nPayload, nOpts, nRetried, nLastErr, nInv, nAttempts, nPosts,
                   nDelivered, workerVars, pureVars>>

----------------------------------------------------------------------------
(* Intake: GET /v1/commands/{id} *)

stateToStatus(state) ==
    CASE state = "active"    -> "PROCESSING"
      [] state = "pending"   -> "PENDING"
      [] state = "completed" -> "SUCCESS"
      [] state = "archived"  -> "FAILED"
      [] state = "retry"     -> "RETRYING"
      [] OTHER               -> "PENDING"

\* taskToStatus: status and error of the status record
taskToStatus(lastErr, status) ==
    IF lastErr # <<>>
    THEN [status |-> "FAILED", error |-> lastErr]
    ELSE [status |-> status, error |-> <<>>]

\* GetCommand for the task's id, once the task exists
GetCommand == taskToStatus(tLastErr, stateToStatus(tState))

----------------------------------------------------------------------------

IdleSystem ==
    /\ tState = "none"
    /\ tPayload = Garbage
    /\ tRetried = 0
    /\ tLastErr = <<>>
    /\ tOpts = NoOpts
    /\ tResult = NoResult
    /\ cur = 0
    /\ invs = <<>>
    /\ dirExists = FALSE
    /\ files = {}
    /\ storage = {}
    /\ webhooks = <<>>
    /\ response = NoResponse
    /\ attempts = 0
    /\ writes = 0
    /\ strayWrite = FALSE
    /\ strayNotify = FALSE
    /\ doneEvents = <<>>
    /\ onlyDownloadFailures = TRUE
    /\ cancelUnmarked = FALSE
    /\ nState = "none"
    /\ nPayload = Garbage
    /\ nOpts = NoOpts
    /\ nRetried = 0
    /\ nLastErr = <<>>
    /\ nInv = NoDelivery
    /\ nAttempts = 0
    /\ nPosts = 0
    /\ nDelivered = FALSE

NoCall   == [fn |-> "none"]
NoReturn == [set |-> FALSE]
NoTiming == [pc |-> "idle"]

\* no call of FFmpegRunner.Run is under way
NoRun == [pc |-> "none"]

IdlePure ==
    /\ fnIn = NoCall
    /\ fnOut = NoReturn
    /\ timing = NoTiming
    /\ run = NoRun

Init ==
    /\ IdleSystem
    /\ IdlePure
    /\ resourceCheckEnabled \in BOOLEAN

Keys == {"in_1", "resource limit", "out_1", "out_2"}

Next ==
    \/ \E req \in Requests, ok \in BOOLEAN : CreateCommand(req, ok)
    \/ EnqueueUndecodable
    \/ Dequeue
    \/ \E a \in DOMAIN invs, u \in MemorySamples : Start(a, u)
    \/ \E a \in DOMAIN invs, k \in Keys, res \in {"ok", "status"} :
          Download(a, k, res)
    \/ \E a \in DOMAIN invs : DownloadsDone(a)
    \/ \E a \in DOMAIN invs, ok \in BOOLEAN, produced \in BOOLEAN,
          output \in ToolOutputs : RunCommand(a, ok, produced, output)
    \/ \E a \in DOMAIN invs : CommandsDone(a)
    \/ \E a \in DOMAIN invs, k \in Keys, uploaded \in BOOLEAN, cause \in UploadErrors :
          Collect(a, k, uploaded, cause)
    \/ \E a \in DOMAIN invs, enqueued \in BOOLEAN : Notify(a, enqueued)
    \/ \E a \in DOMAIN invs, stored \in BOOLEAN : WriteResult(a, stored)
    \/ \E a \in DOMAIN invs : Return(a)
    \/ HandleReturn
    \/ \E why \in {"deadline", "canceled"} : Cancel(why)
    \/ Forward

Spec == Init /\ [][Next]_vars

\* a pickup after the MaxAttempts pickups that `attempts` counts: the broker goes on
\* delivering a task that is pending, and the count stays where it is
Redeliver ==
    /\ tState = "pending"
    /\ attempts = MaxAttempts
    /\ MaxAttempts \notin DOMAIN invs
    /\ tState' = "active"
    /\ cur' = MaxAttempts
    /\ invs' = invs @@ (MaxAttempts :> NewInvocation)
    /\ UNCHANGED <<tPayload, tOpts, tRetried, tLastErr, tResult, dirExists, files, storage,
                   webhooks, response, resourceCheckEnabled, notifVars, pureVars,
                   cancelUnmarked, histVars>>

\* a step of handleFFmpegCommand, in any invocation
HandlerStep ==
    \/ \E a \in DOMAIN invs, u \in MemorySamples : Start(a, u)
    \/ \E a \in DOMAIN invs, k \in Keys, res \in {"ok", "status"} :
          Download(a, k, res)
    \/ \E a \in DOMAIN invs : DownloadsDone(a)
    \/ \E a \in DOMAIN invs, ok \in BOOLEAN, produced \in BOOLEAN,
          output \in ToolOutputs : RunCommand(a, ok, produced, output)
    \/ \E a \in DOMAIN invs : CommandsDone(a)
    \/ \E a \in DOMAIN invs, k \in Keys, uploaded \in BOOLEAN, cause \in UploadErrors :
          Collect(a, k, uploaded, cause)
    \/ \E a \in DOMAIN invs, enqueued \in BOOLEAN : Notify(a, enqueued)
    \/ \E a \in DOMAIN invs, stored \in BOOLEAN : WriteResult(a, stored)
    \/ \E a \in DOMAIN invs : Return(a)

ProcessorNext == Next \/ Redeliver

\* srv.Run(mux): asynq's processor and forwarder keep running, and every call of
\* the handler runs on to its return
ProcessorFairSpec ==
    /\ Init /\ [][ProcessorNext]_vars
    /\ WF_vars(Dequeue)
    /\ WF_vars(Redeliver)
    /\ WF_vars(HandlerStep)
    /\ WF_vars(HandleReturn)
    /\ WF_vars(Forward)

\* The Notifier alone, for a notification the Processor or another client enqueues
NotifierNext ==
    \/ \E p \in NotificationPayloads \cup {Garbage} : EnqueueNotification(p)
    \/ DequeueNotification
    \/ \E outcome \in PostOutcomes : handleWebhookDeliver(outcome)
    \/ HandleDelivery
    \/ ForwardNotification

NotifierSpec == Init /\ [][NotifierNext]_vars

\* asynq's processor, forwarder and the handler itself keep running: srv.Run(mux)
NotifierFairSpec ==
    /\ NotifierSpec
    /\ WF_vars(DequeueNotification)
    /\ WF_vars(\E outcome \in PostOutcomes : handleWebhookDeliver(outcome))
    /\ WF_vars(HandleDelivery)
    /\ WF_vars(ForwardNotification)

\* Intake alone, over every shape of request body the validation distinguishes
IntakeRequests ==
    { Request(i, o, c, cs, w, r) :
        i \in {Unset, Opt(TRUE, In1), Opt(TRUE, InRL)},
        o \in {EmptyMap, Out1, Out2},
        c \in {Unset, Opt(TRUE, <<>>), Opt(TRUE, Cmd12)},
        cs \in {<<>>, <<CmdRL>>, <<CmdRL, CmdRL>>},
        w \in {Unset, Opt(TRUE, Hook)},
        r \in {Unset, Opt(TRUE, <<"ref-7">>)} }

IntakeNext == \E req \in IntakeRequests, ok \in BOOLEAN : CreateCommand(req, ok)

IntakeSpec == Init /\ [][IntakeNext]_vars

-----------------------------------------------------------------------------
(* parseCommandArgs (part_002:751-779): a command string is a sequence of   *)
(* one-character strings                                                    *)

Quotes   == {"\"", "'"}
Space    == " "
NoQuote  == "rune(0)"

\* the scanner before the first rune (lines 753-756)
Scanner0 == [args |-> <<>>, current |-> <<>>, inQuote |-> FALSE, quoteChar |-> NoQuote]

\* one turn of the loop over the runes of cmd (lines 758-774)
ScanRune_emitsClosing(st, r) ==
    IF r \in Quotes /\ ~st.inQuote
    THEN [st EXCEPT !.inQuote = TRUE, !.quoteChar = r]
    ELSE IF r = st.quoteChar /\ st.inQuote
    THEN [st EXCEPT !.inQuote = FALSE, !.quoteChar = NoQuote, !.current = Append(@, r)]
    ELSE IF r = Space /\ ~st.inQuote
    THEN IF Len(st.current) > 0
         THEN [st EXCEPT !.args = Append(@, st.current), !.current = <<>>]
         ELSE st
    ELSE [st EXCEPT !.current = Append(@, r)]

ScanRune_splitsInQuotes(st, r) ==
    IF r \in Quotes /\ ~st.inQuote
    THEN [st EXCEPT !.inQuote = TRUE, !.quoteChar = r]
    ELSE IF r = st.quoteChar /\ st.inQuote
    THEN [st EXCEPT !.inQuote = FALSE, !.quoteChar = NoQuote]
    ELSE IF r = Space
    THEN IF Len(st.current) > 0
         THEN [st EXCEPT !.args = Append(@, st.current), !.current = <<>>]
         ELSE st
    ELSE [st EXCEPT !.current = Append(@, r)]

ScanRune(st, r) ==
    IF r \in Quotes /\ ~st.inQuote
    THEN [st EXCEPT !.inQuote = TRUE, !.quoteChar = r]
    ELSE IF r = st.quoteChar /\ st.inQuote
    THEN [st EXCEPT !.inQuote = FALSE, !.quoteChar = NoQuote]
    ELSE IF r = Space /\ ~st.inQuote
    THEN IF Len(st.current) > 0
         THEN [st EXCEPT !.args = Append(@, st.current), !.current = <<>>]
         ELSE st
    ELSE [st EXCEPT !.current = Append(@, r)]

RECURSIVE Scan(_, _)
Scan(st, cmd) ==
    IF cmd = <<>> THEN st ELSE Scan(ScanRune(st, Head(cmd)), Tail(cmd))

\* the flush after the loop (lines 775-777)
FlushLast_never(st) == st

FlushLast(st) ==
    IF Len(st.current) > 0 THEN [st EXCEPT !.args = Append(@, st.current)] ELSE st

parseCommandArgs(cmd) == FlushLast(Scan(Scanner0, cmd)).args

\* strings.Join(elems, sep) of the Go library
RECURSIVE StringsJoin(_, _)
StringsJoin(elems, sep) ==
    IF elems = <<>> THEN <<>>
    ELSE IF Len(elems) = 1 THEN elems[1]
    ELSE elems[1] \o <<sep>> \o StringsJoin(Tail(elems), sep)

MaxCmdLen == 4
MaxTokLen == 2
MaxArgs   == 3

SeqsUpTo(S, n) == UNION {[1..k -> S] : k \in 0..n}

Alphabet      == {"a", "b", Space} \cup Quotes
QuotedExample == <<"a", Space, "\"", "b", Space, "c", "\"", Space, "d">>
CmdStrings    == SeqsUpTo(Alphabet, MaxCmdLen) \cup {QuotedExample}

\* argument vectors whose tokens hold neither a space nor a quote character
SafeChars == {"a", "b"}
SafeArgvs == SeqsUpTo(SeqsUpTo(SafeChars, MaxTokLen), MaxArgs)

TokenizerInputs ==
    {[fn |-> "parseCommandArgs", cmd |-> c, joined |-> FALSE, argv |-> <<>>] :
        c \in CmdStrings}
    \cup
    {[fn |-> "parseCommandArgs", cmd |-> StringsJoin(argv, Space), joined |-> TRUE,
      argv |-> argv] : argv \in SafeArgvs}

TokenizerInit ==
    /\ IdleSystem
    /\ resourceCheckEnabled = FALSE
    /\ timing = NoTiming
    /\ run = NoRun
    /\ fnIn \in TokenizerInputs
    /\ fnOut = NoReturn

Tokenize ==
    /\ fnIn.fn = "parseCommandArgs"
    /\ ~fnOut.set
    /\ fnOut' = [set |-> TRUE, args |-> parseCommandArgs(fnIn.cmd)]
    /\ UNCHANGED <<fnIn, timing, run, workerVars, notifVars>>

TokenizerNext == Tokenize

TokenizerSpec == TokenizerInit /\ [][TokenizerNext]_vars

----------------------------------------------------------------------------
(* expandPlaceholders (part_002:738-749)                                    *)

\* strings.ReplaceAll: the non-overlapping occurrences of old, from the left
RECURSIVE ReplaceAll_first(_, _, _)
ReplaceAll_first(s, old, new) ==
    IF Len(s) < Len(old) THEN s
    ELSE IF SubSeq(s, 1, Len(old)) = old
         THEN new \o SubSeq(s, Len(old) + 1, Len(s))
         ELSE <<Head(s)>> \o ReplaceAll_first(Tail(s), old, new)

RECURSIVE ReplaceAll(_, _, _)
ReplaceAll(s, old, new) ==
    IF Len(s) < Len(old) THEN s
    ELSE IF SubSeq(s, 1, Len(old)) = old
         THEN new \o ReplaceAll(SubSeq(s, Len(old) + 1, Len(s)), old, new)
         ELSE <<Head(s)>> \o ReplaceAll(Tail(s), old, new)

\* placeholder := "{{" + key + "}}" (lines 741, 745)
Placeholder(key) == <<"{{", key, "}}">>

\* one range loop over a map (lines 740-743, 744-747); Go leaves the order in
\* which a map is ranged over open: order is the order this run takes
RECURSIVE ExpandMap(_, _, _)
ExpandMap(result, paths, order) ==
    IF order = <<>> THEN result
    ELSE ExpandMap(ReplaceAll(result, Placeholder(Head(order)), paths[Head(order)]),
                   paths, Tail(order))

expandPlaceholders(cmd, inputs, outputs, inOrder, outOrder) ==
    ExpandMap(ExpandMap(cmd, inputs, inOrder), outputs, outOrder)

\* the orders in which the keys of a map can be ranged over
Orders(m) ==
    {o \in [1..Cardinality(DOMAIN m) -> DOMAIN m] :
        \A i, j \in DOMAIN o : i # j => o[i] # o[j]}

MaxExpandLen == 5

ExpandAtoms == {"{{", "}}", "a", "o"}
\* a command that names its input twice
ExpandExample ==
    <<"-i ", "{{", "a", "}}", " -i ", "{{", "a", "}}", " ", "{{", "o", "}}">>
ExpandCmds  == SeqsUpTo(ExpandAtoms, MaxExpandLen) \cup {ExpandExample}

PathsA    == [k \in {"a"} |-> <<"a">>]
PathsIn   == [k \in {"a"} |-> <<"/in">>]
PathsOutA == [k \in {"o"} |-> <<"a">>]
PathsAO   == [k \in {"a", "o"} |-> IF k = "a" THEN <<"o">> ELSE <<"/in">>]
PathsRef  == [k \in {"o"} |-> <<"{{", "a", "}}">>]
PathsJobA == [k \in {"a"} |-> <<"/work/id1/", "a", ".", "m", "p", "4">>]
PathsJobO == [k \in {"o"} |-> <<"/work/id1/", "t.jpg">>]
\* lines 572-576 for output_files {"a": "{{o}}", "o": "t.jpg"}, and line 562 for an
\* input "i"
PathsJobI   == [k \in {"i"} |-> <<"/work/id1/", "i", ".", "m", "p", "4">>]
PathsJobRef ==
    [k \in {"a", "o"} |-> IF k = "a" THEN <<"/work/id1/", "{{", "o", "}}">>
                          ELSE <<"/work/id1/", "t.jpg">>]

ExpandMaps ==
    { <<PathsA, EmptyMap>>, <<PathsIn, PathsOutA>>, <<PathsAO, EmptyMap>>,
      <<PathsIn, PathsRef>>, <<PathsJobA, PathsJobO>>, <<PathsJobI, PathsJobRef>> }

ExpandInputs ==
    {[fn |-> "expandPlaceholders", cmd |-> c, inputs |-> m[1], outputs |-> m[2]] :
        c \in ExpandCmds, m \in ExpandMaps}

ExpandInit ==
    /\ IdleSystem
    /\ resourceCheckEnabled = FALSE
    /\ timing = NoTiming
    /\ run = NoRun
    /\ fnIn \in ExpandInputs
    /\ fnOut = NoReturn

\* expandPlaceholders applied to cmd, applied again to what it returned, and
\* applied to cmd in another run, which may range over the maps in another order
Expand ==
    /\ fnIn.fn = "expandPlaceholders"
    /\ ~fnOut.set
    /\ \E i1, i2 \in Orders(fnIn.inputs), o1, o2 \in Orders(fnIn.outputs) :
          LET once == expandPlaceholders(fnIn.cmd, fnIn.inputs, fnIn.outputs, i1, o1)
          IN  fnOut' = [set |-> TRUE, once |-> once,
                        twice |-> expandPlaceholders(once, fnIn.inputs, fnIn.outputs, i2, o2),
                        other |-> expandPlaceholders(fnIn.cmd, fnIn.inputs, fnIn.outputs,
                                                     i2, o2)]
    /\ UNCHANGED <<fnIn, timing, run, workerVars, notifVars>>

ExpandNext == Expand

ExpandSpec == ExpandInit /\ [][ExpandNext]_vars

----------------------------------------------------------------------------
(* getFileType (part_002:781-795)                                           *)

UpperRune(r) ==
    IF \E i \in 1..Len(Lowers) : Lowers[i] = r
    THEN Uppers[CHOOSE i \in 1..Len(Lowers) : Lowers[i] = r]
    ELSE r

\* the spellings of a lower-case string in every mix of letter cases
CaseVariants(str) ==
    {v \in [1..Len(str) -> {str[i] : i \in 1..Len(str)}
                             \cup {UpperRune(str[i]) : i \in 1..Len(str)}] :
        \A i \in 1..Len(str) : v[i] \in {str[i], UpperRune(str[i])}}

ListedExts == ImageExts \cup VideoExts \cup AudioExts \cup SubtitleExts

\* extensions that stand in no case list: the empty one, part of a listed one, a
\* listed one with a character more (the dot included), others
UnlistedExts ==
    {<<>>, <<"j", "p">>, <<"j", "p", "g", "s">>, <<".", "j", "p", "g">>,
     <<"m", "p">>, <<"m", "p", "5">>, <<"t", "x", "t">>, <<"p", "d", "f">>,
     <<"j", "s", "o", "n">>, <<"m", "3", "u", "8">>}

FileTypeInputs ==
    {[fn |-> "getFileType", ext |-> v] :
        v \in UNION {CaseVariants(e) : e \in ListedExts \cup UnlistedExts}}

FileTypeInit ==
    /\ IdleSystem
    /\ resourceCheckEnabled = FALSE
    /\ timing = NoTiming
    /\ run = NoRun
    /\ fnIn \in FileTypeInputs
    /\ fnOut = NoReturn

Classify ==
    /\ fnIn.fn = "getFileType"
    /\ ~fnOut.set
    /\ fnOut' = [set |-> TRUE, class |-> getFileType(fnIn.ext)]
    /\ UNCHANGED <<fnIn, timing, run, workerVars, notifVars>>

FileTypeNext == Classify

FileTypeSpec == FileTypeInit /\ [][FileTypeNext]_vars

----------------------------------------------------------------------------
(* The clock readings of handleFFmpegCommand (part_002:550, 596, 634, 679):  *)
(* time.Now and time.Since read the monotonic clock of the process           *)

MaxClock    == 4
MaxCommands == 2

\* time.Since(t) at the instant now
Since_reversed(now, t) == t - now

Since(now, t) == now - t

TimingInit ==
    /\ IdleSystem
    /\ resourceCheckEnabled = FALSE
    /\ fnIn = NoCall
    /\ fnOut = NoReturn
    /\ run = NoRun
    /\ \E n \in 1..MaxCommands :
          timing = [pc |-> "idle", now |-> 0, commands |-> n, cmdIdx |-> 1, ran |-> 0,
                    startTime |-> 0, ffmpegStart |-> 0, ffmpegDuration |-> 0,
                    result |-> NoResult]

\* time passes between two steps of the handler
Tick ==
    /\ timing.pc \in {"idle", "download", "run", "collect"}
    /\ timing.now < MaxClock
    /\ timing' = [timing EXCEPT !.now = @ + 1]
    /\ UNCHANGED <<fnIn, fnOut, run, workerVars, notifVars>>

\* line 550: startTime := time.Now()
ReadStartTime ==
    /\ timing.pc = "idle"
    /\ timing' = [timing EXCEPT !.pc = "download", !.startTime = timing.now]
    /\ UNCHANGED <<fnIn, fnOut, run, workerVars, notifVars>>

\* line 596: ffmpegStart := time.Now(), once the inputs are there
ReadFFmpegStart ==
    /\ timing.pc = "download"
    /\ timing' = [timing EXCEPT !.pc = "run", !.ffmpegStart = timing.now]
    /\ UNCHANGED <<fnIn, fnOut, run, workerVars, notifVars>>

\* lines 597-633: one command of the chain runs for d units of time; a command that
\* fails ends the handler without a result
TimeCommand(ok, d) ==
    /\ timing.pc = "run"
    /\ timing.cmdIdx <= timing.commands
    /\ timing.now + d <= MaxClock
    /\ timing' = IF ok
                 THEN [timing EXCEPT !.now = @ + d, !.ran = @ + d, !.cmdIdx = @ + 1]
                 ELSE [timing EXCEPT !.now = @ + d, !.ran = @ + d, !.pc = "failed"]
    /\ UNCHANGED <<fnIn, fnOut, run, workerVars, notifVars>>

\* line 634: ffmpegDuration := time.Since(ffmpegStart).Seconds(), after the loop
ReadFFmpegDuration ==
    /\ timing.pc = "run"
    /\ timing.cmdIdx > timing.commands
    /\ timing' = [timing EXCEPT !.pc = "collect",
                                !.ffmpegDuration = Since(timing.now, timing.ffmpegStart)]
    /\ UNCHANGED <<fnIn, fnOut, run, workerVars, notifVars>>

\* lines 679-687: totalDuration := time.Since(startTime).Seconds() and the result
BuildResult ==
    /\ timing.pc = "collect"
    /\ timing' = [timing EXCEPT
                     !.pc = "done",
                     !.result =
                        [written |-> TRUE,
                         blob |-> [ffmpeg_command_run_seconds |-> timing.ffmpegDuration,
                                   total_processing_seconds |->
                                       Since(timing.now, timing.startTime)]]]
    /\ UNCHANGED <<fnIn, fnOut, run, workerVars, notifVars>>

TimingNext ==
    \/ Tick
    \/ ReadStartTime
    \/ ReadFFmpegStart
    \/ \E ok \in BOOLEAN, d \in 0..MaxClock : TimeCommand(ok, d)
    \/ ReadFFmpegDuration
    \/ BuildResult

TimingSpec == TimingInit /\ [][TimingNext]_vars

----------------------------------------------------------------------------
(* The argument vector of the external tool (part_002:603-625,              *)
(* progress.go:39-46)                                                       *)

FlagY        == <<"-", "y">>
FlagProgress == <<"-", "p", "r", "o", "g", "r", "e", "s", "s">>
Pipe1        == <<"p", "i", "p", "e", ":", "1">>

\* lines 605-606: args := parseCommandArgs(expandedCmd);
\* args = append([]string{"-y"}, args...)
HandlerArgs(expandedCmd) == <<FlagY>> \o parseCommandArgs(expandedCmd)

\* progress.go:44: fullArgs := append([]string{"-y", "-progress", "pipe:1"}, args...)
RunnerFullArgs(args) == <<FlagY, FlagProgress, Pipe1>> \o args

\* lines 612-625: the arguments exec.CommandContext(ctx, "ffmpeg", ...) is given,
\* through FFmpegRunner.Run when the duration of the input is known
ToolArgs(expandedCmd, inputDurationMS) ==
    IF inputDurationMS > 0
    THEN RunnerFullArgs(HandlerArgs(expandedCmd))
    ELSE HandlerArgs(expandedCmd)

\* inputDurationMS: 0 when no input could be probed (lines 587-593)
InputDurations == {0, 1500}

ToolArgsInputs ==
    {[fn |-> "toolArgs", cmd |-> c, inputDurationMS |-> d] :
        c \in CmdStrings, d \in InputDurations}

ToolArgsInit ==
    /\ IdleSystem
    /\ resourceCheckEnabled = FALSE
    /\ timing = NoTiming
    /\ run = NoRun
    /\ fnIn \in ToolArgsInputs
    /\ fnOut = NoReturn

BuildToolArgs ==
    /\ fnIn.fn = "toolArgs"
    /\ ~fnOut.set
    /\ fnOut' = [set |-> TRUE, argv |-> ToolArgs(fnIn.cmd, fnIn.inputDurationMS)]
    /\ UNCHANGED <<fnIn, timing, run, workerVars, notifVars>>

ToolArgsNext == BuildToolArgs

ToolArgsSpec == ToolArgsInit /\ [][ToolArgsNext]_vars

----------------------------------------------------------------------------
(* FFmpegRunner.Run and parseProgress (worker/system/progress.go) *)

\* the child writes at most this many lines to its standard output
MaxLines == 3

\* lines the kernel pipe between the child and the copying goroutine holds
PipeCap == 1

\* a ratio num/den, den > 0: the float64 PercentDone without its rounding
Rat(num, den) == [num |-> num, den |-> den]

RatEq(a, b) == a.num * b.den = b.num * a.den

RatLeq(a, b) == a.num * b.den <= b.num * a.den

\* the lines of the child: key=value, a line with no "=", and a line longer
\* than the scanner's buffer (bufio.MaxScanTokenSize)
KV(key, value) == [kind |-> "kv", key |-> key, value |-> value]

NoEquals == [kind |-> "plain"]

TooLong == [kind |-> "long"]

\* the text of a value: digits of a number, or other text
Digits(n) == [digits |-> n]

Text(t) == [text |-> t]

\* strconv.ParseInt(value, 10, 64) with its error dropped: 0 for a non-number
ParseInt(value) == IF "digits" \in DOMAIN value THEN value.digits ELSE 0

ProgressLine(value) == KV("progress", Text(value))

Lines ==
    {KV("out_time_us", Digits(1500)), KV("out_time_us", Digits(5000)),
     KV("out_time_us", Text("N/A")),
     ProgressLine("continue"), ProgressLine("end"), ProgressLine("stalled"),
     NoEquals, TooLong}

\* the durations the runner is built with; the handler builds it with a positive one
Durations == {0, 2}

FFmpegProgress0 == [OutTimeUS |-> 0, Progress |-> "", PercentDone |-> Rat(0, 1)]

\* lines 115-120: the percentage of a progress line
PercentDone(current, DurationMS) ==
    IF DurationMS > 0 /\ current.OutTimeUS > 0
    THEN LET p == Rat((current.OutTimeUS \div 1000) * 100, DurationMS)
         IN  IF ~RatLeq(p, Rat(100, 1)) THEN Rat(100, 1) ELSE p
    ELSE current.PercentDone

\* the value handed to OnProgress for a progress line (lines 111-125)
Reported(current, value, DurationMS) ==
    [current EXCEPT !.Progress = value,
                    !.PercentDone = PercentDone(current, DurationMS)]

\* one turn of the loop of parseProgress on a line the scanner accepted: the
\* fields kept and the callbacks made (lines 84-131)
parseLine(current, line, DurationMS) ==
    IF line.kind # "kv"
    THEN [current |-> current, calls |-> <<>>]
    ELSE IF line.key = "out_time_us"
    THEN [current |-> [current EXCEPT !.OutTimeUS = ParseInt(line.value)],
          calls |-> <<>>]
    ELSE IF line.key = "progress"
    THEN LET p == Reported(current, line.value.text, DurationMS)
         IN  [current |-> IF line.value.text = "end"
                          THEN [p EXCEPT !.PercentDone = Rat(100, 1)]
                          ELSE p,
              calls |-> <<p>>]
    ELSE [current |-> current, calls |-> <<>>]

RunInit ==
    /\ IdleSystem
    /\ resourceCheckEnabled = FALSE
    /\ fnIn = NoCall
    /\ fnOut = NoReturn
    /\ timing = NoTiming
    /\ \E d \in Durations :
          run = [pc |-> "idle", DurationMS |-> d, child |-> "none",
                 lines |-> <<>>, osPipe |-> <<>>, pending |-> <<>>,
                 copier |-> "none", parser |-> "none", closed |-> FALSE,
                 current |-> FFmpegProgress0, scanned |-> <<>>, calls |-> <<>>]

RunUnchanged == UNCHANGED <<fnIn, fnOut, timing, workerVars, notifVars>>

\* lines 56-65: the child is started, os/exec copies its standard output into
\* progressWriter, and the goroutine of parseProgress is started
CmdStart ==
    /\ run.pc = "idle"
    /\ run' = [run EXCEPT !.pc = "started", !.child = "alive",
                          !.copier = "reading", !.parser = "scanning"]
    /\ RunUnchanged

\* the child writes one line to its standard output
ChildWrites(line) ==
    /\ run.child = "alive"
    /\ Len(run.lines) < MaxLines
    /\ Len(run.osPipe) < PipeCap
    /\ run' = [run EXCEPT !.lines = Append(@, line), !.osPipe = Append(@, line)]
    /\ RunUnchanged

ChildExits ==
    /\ run.child = "alive"
    /\ run' = [run EXCEPT !.child = "exited"]
    /\ RunUnchanged

\* line 46: ctx is cancelled and exec.CommandContext kills the child
Kill ==
    /\ run.child = "alive"
    /\ run' = [run EXCEPT !.child = "killed"]
    /\ RunUnchanged

\* the copying goroutine of os/exec reads what the child wrote and calls
\* progressWriter.Write, which returns only when the reader has taken it all
CopyStdout ==
    /\ run.copier = "reading"
    /\ IF run.osPipe # <<>>
       THEN run' = [run EXCEPT !.osPipe = Tail(@), !.pending = <<Head(run.osPipe)>>,
                               !.copier = "writing"]
       ELSE /\ run.child # "alive"
            /\ run' = [run EXCEPT !.copier = "done"]
    /\ RunUnchanged

\* lines 83-131: scanner.Scan() and the body of the loop. A line longer than
\* the scanner's buffer ends the scan with part of the write still not taken.
parseProgress ==
    /\ run.parser = "scanning"
    /\ \/ /\ run.pending # <<>>
          /\ LET line == run.pending[1]
                 r    == parseLine(run.current, line, run.DurationMS)
             IN  IF line.kind = "long"
                 THEN run' = [run EXCEPT !.parser = "done"]
                 ELSE run' = [run EXCEPT !.pending = <<>>, !.copier = "reading",
                                         !.current = r.current,
                                         !.scanned = Append(@, line),
                                         !.calls = @ \o r.calls]
       \/ /\ run.pending = <<>>
          /\ run.closed
          /\ run' = [run EXCEPT !.parser = "done"]
    /\ RunUnchanged

\* lines 68-71: stderr is read to its end and cmd.Wait() returns: the child is
\* gone and the copying goroutine has finished
CmdWait ==
    /\ run.pc = "started"
    /\ run.child # "alive"
    /\ run.copier = "done"
    /\ run' = [run EXCEPT !.pc = "waited"]
    /\ RunUnchanged

\* line 72: progressWriter.Close()
CloseWriter ==
    /\ run.pc = "waited"
    /\ run' = [run EXCEPT !.pc = "closed", !.closed = TRUE]
    /\ RunUnchanged

\* lines 73-75: <-progressDone, return
RunReturns ==
    /\ run.pc = "closed"
    /\ run.parser = "done"
    /\ run' = [run EXCEPT !.pc = "returned"]
    /\ RunUnchanged

RunNext ==
    \/ CmdStart
    \/ \E line \in Lines : ChildWrites(line)
    \/ ChildExits
    \/ Kill
    \/ CopyStdout
    \/ parseProgress
    \/ CmdWait
    \/ CloseWriter
    \/ RunReturns

RunSpec == RunInit /\ [][RunNext]_vars

\* the Go scheduler runs every goroutine that can run
RunFairSpec == RunSpec /\ WF_vars(CopyStdout) /\ WF_vars(parseProgress)
                       /\ WF_vars(CmdWait) /\ WF_vars(CloseWriter) /\ WF_vars(RunReturns)

----------------------------------------------------------------------------
(* GetResourceStatus and getLinuxMemory (part_004:32-132) *)

\* uint64 arithmetic, kept at a width TLC can count in: values wrap at Word
WordBits == 16
Word == 2 ^ WordBits

\* the kilobyte figures /proc/meminfo may show on a line; 0 also stands for a
\* line that is missing or does not parse (the variable keeps its zero value)
MemKB == {0, 1, 2, 3}

\* runtime.MemStats of the fallback: Alloc and Sys
MemStats == {[Alloc |-> 1, Sys |-> 2], [Alloc |-> 2, Sys |-> 2]}

\* line 107: val *= 1024
KBToBytes(kb) == (kb * 1024) % Word

\* lines 86-132
getLinuxMemory(meminfo) ==
    LET memTotal     == KBToBytes(meminfo.MemTotal)
        memAvailable == KBToBytes(meminfo.MemAvailable)
        memFree      == KBToBytes(meminfo.MemFree)
        buffers      == KBToBytes(meminfo.Buffers)
        cached       == KBToBytes(meminfo.Cached)
    IN  [total |-> memTotal,
         available |-> IF memAvailable > 0 THEN memAvailable
                       ELSE (memFree + buffers + cached) % Word]

\* lines 43-56: the percentage of memory in use
GetResourceStatus(meminfo, m) ==
    LET mem == getLinuxMemory(meminfo) IN
    IF mem.total > 0
    THEN LET usedMem == (mem.total - mem.available + Word) % Word
         IN  [MemoryUsagePercent |-> Rat(usedMem * 100, mem.total)]
    ELSE [MemoryUsagePercent |-> Rat(m.Alloc * 100, m.Sys)]

\* line 65: the comparison of CheckResourcesAvailable on that percentage
WithinLimit(status, maxMemoryPercent) ==
    RatLeq(status.MemoryUsagePercent, Rat(maxMemoryPercent, 1))

MemInputs ==
    {[fn |-> "GetResourceStatus",
      meminfo |-> [MemTotal |-> t, MemAvailable |-> a, MemFree |-> f,
                   Buffers |-> b, Cached |-> c],
      m |-> m] : t \in MemKB, a \in MemKB, f \in MemKB, b \in MemKB, c \in MemKB,
                 m \in MemStats}

MemInit ==
    /\ IdleSystem
    /\ resourceCheckEnabled = FALSE
    /\ timing = NoTiming
    /\ run = NoRun
    /\ fnIn \in MemInputs
    /\ fnOut = NoReturn

ReadStatus ==
    /\ fnIn.fn = "GetResourceStatus"
    /\ ~fnOut.set
    /\ LET status == GetResourceStatus(fnIn.meminfo, fnIn.m)
       IN  fnOut' = [set |-> TRUE, status |-> status,
                     ok |-> WithinLimit(status, MaxMemoryPercent)]
    /\ UNCHANGED <<fnIn, timing, run, workerVars, notifVars>>

MemNext == ReadStatus

MemSpec == MemInit /\ [][MemNext]_vars

----------------------------------------------------------------------------
(* Claims *)

HasTask == tState # "none"
Req == Unmarshal(tPayload)
IndexOf(events, e) == CHOOSE i \in 1..Len(events) : events[i] = e

\* the step in which the handler invocation a returns
HandlerReturns(a) ==
    /\ invs[a].pc # "returned"
    /\ a \notin DOMAIN invs' \/ invs'[a].pc = "returned"

\* the step in which the broker takes the error the handler returned
BrokerTakesError ==
    /\ cur # 0 /\ invs[cur].pc = "returned" /\ invs[cur].err # <<>>
    /\ cur' = 0 /\ tLastErr' = invs[cur].err

\* C1: whenever a handler invocation returns, on whatever path, the directory
\* <WORK_DIR>/<command_id> does not exist right after the return.
C1_NoWorkspaceAfterReturn ==
    [][\A a \in DOMAIN invs : HandlerReturns(a) => ~dirExists']_vars

\* C2 as stated: no notification is enqueued for an attempt that does not end in
\* SUCCESS, none for a command without webhook, and every SUCCESS of a command with a
\* webhook has a notification enqueued.
C2_NotifiedIffSuccess ==
    /\ ~strayNotify
    /\ (HasTask /\ Decodable(tPayload) /\ Req.webhook = <<>>) => webhooks = <<>>
    /\ (tState = "completed" /\ Req.webhook # <<>>) => Has(doneEvents, "enqueue")

\* C2 as amended: a notification is enqueued only for a command with a webhook, one at
\* a time, by a handler invocation that has collected every output and goes on to
\* return nil; every SUCCESS of a command with a webhook has made the enqueue call, and
\* the notification is on the queue unless that call failed.
C2_NotifiedAfterCollectUnlessEnqueueFails ==
    /\ [](/\ webhooks # <<>> => (Decodable(tPayload) /\ Req.webhook # <<>>)
          /\ (tState = "completed" /\ Req.webhook # <<>>) =>
                (Has(doneEvents, "enqueue") \/ Has(doneEvents, "enqueue failed")))
    /\ [][webhooks' # webhooks =>
            \E a \in DOMAIN invs :
               /\ invs[a].pc = "collect" /\ invs'[a].pc = "write"
               /\ DOMAIN invs[a].outputFiles = DOMAIN Req.output_files
               /\ invs'[a].events = Append(invs[a].events, "enqueue")
               /\ webhooks' = Append(webhooks, webhooks'[Len(webhooks')])]_vars

C2_Witness ==
    /\ tState = "completed" /\ Req.webhook # <<>>
    /\ Has(doneEvents, "enqueue failed") /\ webhooks = <<>>

\* C3: in an attempt that writes a Result and enqueues a notification, the write comes
\* before the enqueue.
C3_ResultBeforeNotification ==
    \A a \in DOMAIN invs :
       (Has(invs[a].events, "write") /\ Has(invs[a].events, "enqueue")) =>
          IndexOf(invs[a].events, "write") < IndexOf(invs[a].events, "enqueue")

\* C4: when the broker takes an admission rejection, the retry counter keeps its value
\* and the task goes to the retry state, never to the archive.
C4_RejectionNotCharged ==
    [][(BrokerTakesError /\ invs[cur].exit = "admission") =>
          (tRetried' = tRetried /\ tState' = "retry")]_vars

C4_Witness ==
    /\ attempts = 2 /\ cur = 0 /\ tState = "retry" /\ tRetried = 0
    /\ tLastErr = <<"resource limit", ": ", "memory usage too high: ", "86.0", "%">>

\* C5: every handler error other than an admission rejection is classified as a
\* failure and raises the retry counter by exactly one.
C5_OtherErrorsCharged ==
    [][(BrokerTakesError /\ invs[cur].exit # "admission") =>
          (IsFailure(invs[cur].err) /\ tRetried' = tRetried + 1)]_vars

\* C6: a task whose every attempt fails at the download of input k is FAILED after
\* exactly TASK_MAX_RETRY+1 attempts, with `download k` in its last error.
C6_DownloadFailureBudget ==
    onlyDownloadFailures =>
       /\ Settled = TaskMaxRetry + 1 => tState = "archived"
       /\ tState = "archived" =>
             /\ Settled = TaskMaxRetry + 1
             /\ \E k \in DOMAIN Req.input_files : Contains(tLastErr, <<"download ", k>>)

\* C7: for a task in SUCCESS, the keys of Result.output_files are the keys of the
\* request's output_files and each file_id is command_id + "_" + key.
C7_ResultKeysAndFileIds ==
    (tState = "completed" /\ tResult.written) =>
       /\ DOMAIN tResult.blob.output_files = DOMAIN Req.output_files
       /\ \A k \in DOMAIN tResult.blob.output_files :
             tResult.blob.output_files[k].file_id = <<CommandID, "_", k>>

C7_Witness ==
    /\ tState = "completed" /\ tResult.written
    /\ DOMAIN tResult.blob.output_files = {"out_1", "out_2"}

\* C8: over the life of the task the result slot is written at most once, only by the
\* attempt that ends in SUCCESS, and never by an invocation that returns an error.
C8_ResultWrittenOnce ==
    /\ writes <= 1
    /\ ~strayWrite
    /\ \A a \in DOMAIN invs : invs[a].err # <<>> => ~Has(invs[a].events, "write")

\* C9: a task in SUCCESS has a result, a task in FAILED has a last error, the payload
\* of an enqueued task never changes and the retry counter never decreases.
C9_TaskInvariants ==
    [][/\ tState' = "completed" => tResult'.written
       /\ tState' = "archived" => tLastErr' # <<>>
       /\ HasTask => tPayload' = tPayload
       /\ tRetried' >= tRetried]_vars

\* C10: GET /v1/commands/{id} reports SUCCESS for every task in the completed state.
C10_CompletedReportsSuccess ==
    tState = "completed" => GetCommand.status = "SUCCESS"

\* C11: a task in the retry state is reported RETRYING by GET, and FAILED is reported
\* only for an archived task.
C11_RetryReportsRetrying ==
    /\ tState = "retry" => GetCommand.status = "RETRYING"
    /\ (HasTask /\ GetCommand.status = "FAILED") => tState = "archived"

\* the request supplies exactly one of the two command fields, and that one non-empty
ExactlyOneCommand(req) ==
    \/ req.FfmpegCommand.Set /\ req.FfmpegCommand.Value # <<>>
          /\ Len(req.FfmpegCommands) = 0
    \/ ~req.FfmpegCommand.Set /\ Len(req.FfmpegCommands) > 0

\* C12: a POST that does not supply exactly one non-empty command field (both supplied,
\* or ffmpeg_command = "") is answered 400 and leaves no task.
C12_ExactlyOneCommandAccepted ==
    [][\A req \in IntakeRequests, ok \in BOOLEAN :
          (CreateCommand(req, ok) /\ ~ExactlyOneCommand(req)) =>
             (response'.code = 400 /\ tState' = "none")]_vars

\* C13: a POST with a command and no output_files is answered 400 "output_files
\* required", a POST with neither command field is answered 400 "ffmpeg_command or
\* ffmpeg_commands required", and a 400 leaves the broker untouched and no task.
C13_ValidationErrors ==
    [][\A req \in IntakeRequests, ok \in BOOLEAN : CreateCommand(req, ok) =>
          /\ (~req.FfmpegCommand.Set /\ Len(req.FfmpegCommands) = 0) =>
                response' = [code |-> 400,
                             error |-> "ffmpeg_command or ffmpeg_commands required"]
          /\ ((req.FfmpegCommand.Set \/ Len(req.FfmpegCommands) > 0)
                 /\ DOMAIN req.OutputFiles = {}) =>
                response' = [code |-> 400, error |-> "output_files required"]
          /\ response'.code = 400 => (UNCHANGED brokerVars /\ tState' = "none")]_vars

C13_Witness ==
    /\ response = [code |-> 400, error |-> "output_files required"]
    /\ tState = "none" /\ tOpts = NoOpts

\* C14: for a request that passes validation, a successful enqueue leaves one pending
\* task on queue ffmpeg whose payload decodes to the command, with max_retry, timeout
\* and retention from the configuration, and the answer is {command_id, PENDING,
\* reference_id echoed}; a failed enqueue leaves no task and the answer is a 500.
C14_EnqueueContract ==
    [][\A req \in IntakeRequests, ok \in BOOLEAN :
          (CreateCommand(req, ok) /\ Validate(req) = "") =>
             IF ok
             THEN /\ tState' = "pending" /\ tRetried' = 0 /\ cur' = 0
                  /\ tOpts' = [queue |-> "ffmpeg", max_retry |-> TaskMaxRetry,
                               timeout |-> TaskTimeoutMinutes,
                               retention |-> TaskRetentionHours]
                  /\ Decodable(tPayload')
                  /\ Unmarshal(tPayload') =
                        [input_files     |-> IF req.InputFiles.Set
                                             THEN req.InputFiles.Value ELSE EmptyMap,
                         output_files    |-> req.OutputFiles,
                         ffmpeg_command  |-> IF req.FfmpegCommand.Set
                                             THEN req.FfmpegCommand.Value ELSE <<>>,
                         ffmpeg_commands |-> req.FfmpegCommands,
                         webhook         |-> IF req.Webhook.Set
                                             THEN req.Webhook.Value ELSE <<>>,
                         reference_id    |-> IF req.ReferenceID.Set
                                             THEN req.ReferenceID.Value ELSE <<>>]
                  /\ response' = [code |-> 200, command_id |-> CommandID,
                                  status |-> "PENDING", reference_id |-> req.ReferenceID]
             ELSE response'.code = 500 /\ tState' = "none" /\ UNCHANGED brokerVars]_vars

C14_Witness ==
    /\ response.code = 200 /\ response.status = "PENDING"
    /\ response.reference_id = Opt(TRUE, <<"ref-7">>)
    /\ tState = "pending" /\ tOpts.queue = "ffmpeg"
    /\ Unmarshal(tPayload).reference_id = <<"ref-7">>

Is2xx(code) == code \in 200..299

C16_PostedMaxRetryTimes ==
    /\ nPosts <= WebhookMaxRetry
    /\ (nState = "archived" /\ Decodable(nPayload)) =>
          (nPosts = WebhookMaxRetry /\ ~nDelivered)

\* C17: every notification task enqueued on `webhooks` ends completed, and then some
\* POST was answered 2xx, or archived; it stays there and never leaves the broker
\* otherwise.
C17_DeliveredOrArchived ==
    /\ (nState = "pending") ~> (nState \in {"completed", "archived"})
    /\ [](nState = "completed" => nDelivered)
    /\ [][/\ nState # "none" => nState' # "none"
          /\ nState \in {"completed", "archived"} => nState' = nState]_vars

C17_Witness ==
    /\ nState = "archived" /\ Decodable(nPayload) /\ ~nDelivered
    /\ nPosts = WebhookMaxRetry + 1

\* C18: once an attempt on an undecodable payload has returned its decode error, the
\* task is archived after that single attempt, with no retry consumed, in the Processor
\* and in the Notifier.
C18_UndecodableIsFatal ==
    /\ (HasTask /\ ~Decodable(tPayload) /\ Contains(tLastErr, <<"unmarshal">>)) =>
          (tState = "archived" /\ attempts = 1 /\ tRetried = 0)
    /\ (nState # "none" /\ ~Decodable(nPayload)
           /\ Contains(nLastErr, <<"unmarshal payload: ">>)) =>
          (nState = "archived" /\ nAttempts = 1 /\ nRetried = 0)

\* C19: an invocation whose context is done before it has written a Result returns an
\* error carrying the cancelled marker, and from then on neither enqueues a
\* notification nor writes a Result.
C19_CancelledAttemptFails ==
    [][/\ ~cancelUnmarked'
       /\ \A a \in DOMAIN invs :
             (invs[a].ctx # "live" /\ a \in DOMAIN invs') =>
                /\ Has(invs'[a].events, "enqueue") => Has(invs[a].events, "enqueue")
                /\ Has(invs'[a].events, "write") => Has(invs[a].events, "write")]_vars

\* the invocation a has made the workspace and has not yet returned
InWorkspace(i, a) ==
    a \in DOMAIN i /\ i[a].pc \in {"download", "run", "collect", "write", "ret"}

\* C20: at most one running invocation uses <WORK_DIR>/<command_id>, and the cleanup
\* of a returning invocation never removes the directory while another invocation is
\* using it.
C20_WorkspaceExclusive ==
    [][/\ Cardinality({a \in DOMAIN invs' : InWorkspace(invs', a)}) <= 1
       /\ \A a \in DOMAIN invs :
             (HandlerReturns(a) /\ dirExists /\ ~dirExists') =>
                ~\E b \in DOMAIN invs \ {a} : InWorkspace(invs, b)]_vars

Tokenized == fnIn.fn = "parseCommandArgs" /\ fnOut.set
NonEmptyTokens(argv) == \A i \in 1..Len(argv) : Len(argv[i]) > 0

\* C21 as stated: for every argv whose tokens hold no whitespace and no quote
\* character, parseCommandArgs(join(argv, " ")) equals argv
C21_RoundTrip ==
    Tokenized /\ fnIn.joined => fnOut.args = fnIn.argv

\* C21 amended: the round trip holds for every such argv whose tokens are also
\* non-empty (an empty token leaves no trace in the joined string)
C21_RoundTripNonEmpty ==
    Tokenized /\ fnIn.joined /\ NonEmptyTokens(fnIn.argv) => fnOut.args = fnIn.argv

C21_Witness ==
    /\ Tokenized /\ fnIn.joined
    /\ Len(fnIn.argv) = MaxArgs
    /\ NonEmptyTokens(fnIn.argv)
    /\ fnOut.args = fnIn.argv

HasQuote(s, q) == \E i \in 1..Len(s) : s[i] = q
Other(q) == IF q = "'" THEN "\"" ELSE "'"

\* C22 as stated: no argument produced by parseCommandArgs contains a quote
\* character
C22_NoQuoteEmitted ==
    Tokenized => \A i \in 1..Len(fnOut.args) : \A q \in Quotes : ~HasQuote(fnOut.args[i], q)

\* C22 amended: an argument contains a quote character of one kind only when the
\* command string holds a quote character of the other kind (inside a region opened
\* by the other kind it is an ordinary character); a command string with one kind
\* of quote character yields arguments without any
C22_QuoteOnlyInsideOtherKind ==
    Tokenized =>
        \A i \in 1..Len(fnOut.args) : \A q \in Quotes :
            HasQuote(fnOut.args[i], q) => HasQuote(fnIn.cmd, Other(q))

C22_Witness ==
    /\ Tokenized
    /\ HasQuote(fnIn.cmd, "\"") /\ ~HasQuote(fnIn.cmd, "'")
    /\ Len(fnOut.args) = 2
    /\ \A i \in 1..Len(fnOut.args) : ~HasQuote(fnOut.args[i], "\"")

Sub(s, i, j) == SubSeq(s, i, j)
QuoteFree(s) == \A i \in 1..Len(s) : s[i] \notin Quotes
\* the longest suffix of s without a space
RECURSIVE LastRun(_)
LastRun(s) ==
    IF s = <<>> \/ s[Len(s)] = Space THEN <<>>
    ELSE Append(LastRun(Sub(s, 1, Len(s) - 1)), s[Len(s)])

\* C23: the text between an opening quote character and its matching closing
\* character, spaces included, is kept inside one argument (a "b c" d gives
\* [a, b c, d]); an unclosed quote is tolerated, what is pending at the end of the
\* string being flushed as the final argument
C23_QuotedTextInOneArgument ==
    Tokenized =>
        LET cmd == fnIn.cmd args == fnOut.args IN
        /\ cmd = QuotedExample => args = <<<<"a">>, <<"b", Space, "c">>, <<"d">>>>
        /\ \A i \in 1..Len(cmd) : \A j \in (i + 2)..Len(cmd) :
              /\ cmd[i] \in Quotes /\ cmd[j] = cmd[i]
              /\ QuoteFree(Sub(cmd, 1, i - 1))
              /\ ~HasQuote(Sub(cmd, i + 1, j - 1), cmd[i])
              => \E n \in 1..Len(args) : Contains(args[n], Sub(cmd, i + 1, j - 1))
        /\ \A i \in 1..Len(cmd) :
              LET pending == LastRun(Sub(cmd, 1, i - 1)) \o Sub(cmd, i + 1, Len(cmd)) IN
              /\ cmd[i] \in Quotes
              /\ QuoteFree(Sub(cmd, 1, i - 1))
              /\ ~HasQuote(Sub(cmd, i + 1, Len(cmd)), cmd[i])
              /\ pending # <<>>
              => args # <<>> /\ args[Len(args)] = pending

C23_Witness ==
    /\ Tokenized
    /\ fnIn.cmd = QuotedExample
    /\ fnOut.args = <<<<"a">>, <<"b", Space, "c">>, <<"d">>>>

C23_WitnessUnclosed ==
    /\ Tokenized
    /\ fnIn.cmd = <<"a", "\"", "b", Space>>
    /\ fnOut.args = <<<<"a", "b", Space>>>>

Expanded == fnIn.fn = "expandPlaceholders" /\ fnOut.set
Values(m) == {m[k] : k \in DOMAIN m}
\* a value with a {{...}} substring: an opening pair of braces and a closing pair
\* after it
HasPlaceholderShape(v) ==
    \E i \in 1..Len(v) : \E j \in (i + 1)..Len(v) : v[i] = "{{" /\ v[j] = "}}"
BraceFree(v) == \A i \in 1..Len(v) : v[i] \notin {"{{", "}}"}
\* the braces of s are the delimiters of placeholders of the keys, one after another
BracesOnlyInPlaceholders(s, keys) ==
    \A i \in 1..Len(s) :
        /\ s[i] = "{{" => i + 2 <= Len(s) /\ s[i + 1] \in keys /\ s[i + 2] = "}}"
        /\ s[i] = "}}" => i >= 3 /\ s[i - 2] = "{{" /\ s[i - 1] \in keys

\* C24 as stated: for every command string s and every map m whose values contain
\* no {{...}} substring, expanding the expansion of s gives the expansion of s
C24_ExpandIdempotent ==
    /\ Expanded
    /\ \A v \in Values(fnIn.inputs) \cup Values(fnIn.outputs) : ~HasPlaceholderShape(v)
    => fnOut.twice = fnOut.once

C24_FailingInput ==
    /\ Expanded
    /\ fnIn.cmd = <<"{{", "{{", "a", "}}", "}}">>
    /\ fnIn.inputs = PathsA /\ fnIn.outputs = EmptyMap
    /\ fnOut.once = <<"{{", "a", "}}">>
    /\ fnOut.twice = <<"a">>

\* C24 amended: for every map m whose values hold no brace pair and every command
\* string s whose brace pairs are only the delimiters of placeholders {{k}} of keys
\* k of m, expanding the expansion of s gives the expansion of s, whatever the
\* order in which the maps are ranged over
C24_ExpandIdempotentOnPlainPlaceholders ==
    /\ Expanded
    /\ \A v \in Values(fnIn.inputs) \cup Values(fnIn.outputs) : BraceFree(v)
    /\ BracesOnlyInPlaceholders(fnIn.cmd, DOMAIN fnIn.inputs \cup DOMAIN fnIn.outputs)
    => fnOut.twice = fnOut.once /\ BraceFree(fnOut.once)

C24_Witness ==
    /\ Expanded
    /\ fnIn.cmd = ExpandExample
    /\ fnIn.inputs = PathsJobA /\ fnIn.outputs = PathsJobO
    /\ fnOut.once = <<"-i ">> \o PathsJobA["a"] \o <<" -i ">> \o PathsJobA["a"]
                        \o <<" ">> \o PathsJobO["o"]
    /\ fnOut.twice = fnOut.once

Classified == fnIn.fn = "getFileType" /\ fnOut.set
SpellingOf(ext, exts) == \E e \in exts : ext \in CaseVariants(e)
\* ext with the case of some of its letters changed
Recased(ext) ==
    {v \in [1..Len(ext) -> {LowerRune(ext[i]) : i \in 1..Len(ext)}
                             \cup {UpperRune(ext[i]) : i \in 1..Len(ext)}] :
        \A i \in 1..Len(ext) : v[i] \in {LowerRune(ext[i]), UpperRune(ext[i])}}

\* C25: the class getFileType gives an extension is the class it gives the same
\* extension in any other letter case; an extension of the image, video, audio or
\* subtitle list, in any letter case, gets the class of its list, and any other
\* extension gets "file"
C25_FileTypeCaseInsensitive ==
    Classified =>
        /\ \A v \in Recased(fnIn.ext) : getFileType(v) = fnOut.class
        /\ SpellingOf(fnIn.ext, ImageExts) => fnOut.class = "image"
        /\ SpellingOf(fnIn.ext, VideoExts) => fnOut.class = "video"
        /\ SpellingOf(fnIn.ext, AudioExts) => fnOut.class = "audio"
        /\ SpellingOf(fnIn.ext, SubtitleExts) => fnOut.class = "subtitle"
        /\ ~SpellingOf(fnIn.ext, ListedExts) => fnOut.class = "file"

C25_Witness ==
    /\ Classified
    /\ fnIn.ext = <<"M", "P", "4">>
    /\ fnOut.class = "video"

\* C26: in every result written, the file_format of an output is the extension of
\* its file name without the leading dot, in lower case, whatever the letter case of
\* the file name
C26_FileFormatLowercased ==
    tResult.written =>
        \A k \in DOMAIN tResult.blob.output_files :
            LET ext == TrimPrefix(Ext(Req.output_files[k]), ".") IN
            tResult.blob.output_files[k].file_format = ToLower(ext)

\* C27: for every accepted command and every output (key, filename), the local
\* path the Processor resolves, stats and uploads from lies inside the workspace
\* <WORK_DIR>/<command_id> of the task; no file is written or read outside it
C27_OutputPathsInsideWorkspace ==
    /\ \A a \in DOMAIN invs : \A k \in DOMAIN invs[a].outputFiles :
          Inside(OutputPath(CommandID, Req.output_files[k]), JobDir(CommandID))
    /\ \A f \in files : Inside(f, JobDir(CommandID))

\* C28: in every result written, total_processing_seconds is at least
\* ffmpeg_command_run_seconds, which is at least the time all the commands of the
\* chain ran for, and so at least zero
C28_TotalCoversFFmpegTime ==
    timing.pc = "done" /\ timing.result.written =>
        /\ timing.result.blob.total_processing_seconds
               >= timing.result.blob.ffmpeg_command_run_seconds
        /\ timing.result.blob.ffmpeg_command_run_seconds >= timing.ran
        /\ timing.result.blob.ffmpeg_command_run_seconds >= 0

C28_Witness ==
    /\ timing.pc = "done" /\ timing.result.written
    /\ timing.commands = MaxCommands
    /\ timing.ran = 2
    /\ timing.result.blob.ffmpeg_command_run_seconds = 3
    /\ timing.result.blob.total_processing_seconds = 4

\* the step Start(a, u) ends the invocation a at admission (an invocation the broker
\* no longer waits on is dropped when it returns)
RejectedAtAdmission(a) ==
    IF a = cur THEN invs'[a].pc = "returned" /\ invs'[a].exit = "admission"
    ELSE a \notin DOMAIN invs'

\* C29: with resource monitoring enabled an attempt is rejected at admission exactly
\* when the memory usage is strictly above MAX_MEMORY_PERCENT, and a rejected attempt
\* has no side effect: no workspace, no download, no command, no upload, no result,
\* no notification; with monitoring disabled no attempt is rejected
C29_AdmissionByMemory ==
    [][\A a \in DOMAIN invs : \A u \in MemorySamples :
          (Start(a, u) /\ (a = cur \/ Decodable(tPayload))) =>
              /\ RejectedAtAdmission(a) <=> (resourceCheckEnabled /\ u > MaxMemoryPercent)
              /\ RejectedAtAdmission(a) =>
                    /\ UNCHANGED <<dirExists, files, storage, tResult, webhooks, writes>>
                    /\ a = cur =>
                          /\ invs'[a].inputPaths = EmptyMap
                          /\ invs'[a].cmdIdx = 0
                          /\ invs'[a].outputFiles = EmptyMap
                          /\ invs'[a].events = <<>>
                          /\ Contains(invs'[a].err, <<"resource limit">>)]_vars

C29_Witness ==
    /\ resourceCheckEnabled
    /\ cur \in DOMAIN invs
    /\ invs[cur].pc = "returned" /\ invs[cur].exit = "admission"
    /\ invs[cur].events = <<>>
    /\ ~dirExists /\ files = {} /\ storage = {} /\ ~tResult.written /\ webhooks = <<>>

\* C30: within one attempt every input is downloaded before the first command, the
\* commands run one at a time in list order, outputs are collected only after every
\* command has exited successfully, result and notification come after every output
\* is collected; a failed download, command or upload ends the attempt at once, and
\* an attempt that has returned takes no further step
C30_StepsInOrder ==
    [][\A a \in DOMAIN invs :
          /\ invs[a].pc = "returned" => a \notin DOMAIN invs' \/ invs'[a] = invs[a]
          /\ (a \in DOMAIN invs' /\ Decodable(tPayload)) =>
                LET old == invs[a] new == invs'[a] IN
                /\ new.inputPaths # old.inputPaths => old.cmdIdx = 0
                /\ new.cmdIdx \in {old.cmdIdx, old.cmdIdx + 1}
                /\ new.cmdIdx # old.cmdIdx =>
                      /\ DOMAIN old.inputPaths = DOMAIN Req.input_files
                      /\ old.cmdIdx <= Len(Commands(Req))
                      /\ old.outputFiles = EmptyMap
                /\ new.outputFiles # old.outputFiles =>
                      /\ old.cmdIdx = Len(Commands(Req)) + 1
                      /\ old.events = <<>>
                /\ new.events # old.events =>
                      DOMAIN old.outputFiles = DOMAIN Req.output_files
          /\ \A k \in Keys : Download(a, k, "status") =>
                a \notin DOMAIN invs' \/ invs'[a].pc = "returned"
          /\ \A produced \in BOOLEAN, output \in ToolOutputs :
                RunCommand(a, FALSE, produced, output) =>
                   a \notin DOMAIN invs' \/ invs'[a].pc = "returned"
          /\ \A k \in Keys, cause \in UploadErrors : Collect(a, k, FALSE, cause) =>
                a \notin DOMAIN invs' \/ invs'[a].pc = "returned"]_vars

C30_Witness ==
    /\ cur \in DOMAIN invs
    /\ invs[cur].pc = "returned" /\ invs[cur].exit = "ok"
    /\ Len(Commands(Req)) = 2
    /\ invs[cur].cmdIdx = 3
    /\ DOMAIN invs[cur].outputFiles = DOMAIN Req.output_files
    /\ Has(invs[cur].events, "write")

\* C31: the argument vector passed to the tool for a command is -y once, then
\* -progress pipe:1 exactly when the duration of the input is known, then the tokens
\* of the expanded command in their order
C31_ToolArgv ==
    fnIn.fn = "toolArgs" /\ fnOut.set =>
        fnOut.argv = <<FlagY>>
                     \o (IF fnIn.inputDurationMS > 0 THEN <<FlagProgress, Pipe1>> ELSE <<>>)
                     \o parseCommandArgs(fnIn.cmd)

\* the commands with a webhook as the Processor decodes them, and the result the
\* Processor builds for one of them
WebhookCommands ==
    { Unmarshal(Payload(Marshal(WorkerRequest(r)))) :
        r \in {x \in Requests : Validate(x) = "" /\ x.Webhook.Set} }
ResultFor(w) ==
    CommandResult([k \in DOMAIN w.output_files |->
                      OutputInfo(CommandID, k, w.output_files[k],
                                 StorageURL(DestPath(CommandID, w.output_files[k])))])
NotificationFor(w) ==
    enqueueWebhook(<<>>, w.webhook, CommandID, ResultFor(w), w, TRUE)[1]
Carries(body, result, fields) ==
    \A f \in fields : f \in DOMAIN body /\ body[f] = result[f]
Posted == nInv.pc = "returned" /\ nInv.posted

\* C32 as stated: the body the Notifier POSTs for a notification of the Processor
\* holds every field of the result (output_files, ffmpeg_command_run_seconds,
\* total_processing_seconds, completed_at, hardware_acceleration) with equal values,
\* and command_id, status "SUCCESS" and the request of the task
C32_BodyMirrorsResult ==
    Posted =>
        \A w \in WebhookCommands : nPayload = NotificationFor(w) =>
            /\ Carries(nInv.body, ResultFor(w),
                       {"output_files", "ffmpeg_command_run_seconds",
                        "total_processing_seconds", "completed_at",
                        "hardware_acceleration"})
            /\ Carries(nInv.body,
                       [command_id |-> CommandID, status |-> "SUCCESS",
                        original_request |-> Marshal(w)],
                       {"command_id", "status", "original_request"})

\* C32 amended: the body holds output_files, ffmpeg_command_run_seconds,
\* total_processing_seconds and hardware_acceleration of the result with equal
\* values (completed_at is not part of it), and command_id, status "SUCCESS" and
\* the request of the task; the Notifier POSTs exactly the body that was enqueued
C32_BodyMirrorsResultButCompletedAt ==
    Posted =>
        \A w \in WebhookCommands : nPayload = NotificationFor(w) =>
            /\ Carries(nInv.body, ResultFor(w),
                       {"output_files", "ffmpeg_command_run_seconds",
                        "total_processing_seconds", "hardware_acceleration"})
            /\ Carries(nInv.body,
                       [command_id |-> CommandID, status |-> "SUCCESS",
                        original_request |-> Marshal(w)],
                       {"command_id", "status", "original_request"})
            /\ DOMAIN nInv.body =
                  {"output_files", "ffmpeg_command_run_seconds", "total_processing_seconds",
                   "hardware_acceleration", "command_id", "status", "original_request"}
            /\ nInv.body = nPayload.obj.body

C32_Witness ==
    /\ Posted
    /\ \E w \in WebhookCommands : nPayload = NotificationFor(w)
    /\ DOMAIN nInv.body.output_files = {"out_1", "out_2"}
    /\ nInv.resp = 200

\* C33: when the enqueue of the notification fails, the attempt still writes its
\* result and returns nil, the broker completes the task (SUCCESS), and the retry
\* counter stays as it was
C33_EnqueueFailureSwallowed ==
    [][(/\ cur # 0 /\ invs[cur].pc = "returned"
        /\ Has(invs[cur].events, "enqueue failed")
        /\ HandleReturn)
       => /\ invs[cur].err = <<>>
          /\ Has(invs[cur].events, "write") /\ tResult.written
          /\ tState' = "completed"
          /\ tRetried' = tRetried]_vars

\* the lines of a sequence that are progress=continue or progress=end
RECURSIVE ProgressLines(_)
ProgressLines(lines) ==
    IF lines = <<>> THEN <<>>
    ELSE LET rest == ProgressLines(Tail(lines))
         IN  IF Head(lines) \in {ProgressLine("continue"), ProgressLine("end")}
             THEN <<Head(lines)>> \o rest ELSE rest

\* C34: every value given to the progress callback has PercentDone within
\* [0, 100], equal to min(100, (out_time_us/1000)/duration_ms*100) when the
\* duration and out_time_us are positive; the callbacks made are, in order, one
\* for each progress=continue or progress=end line read and none for any other
C34_ProgressCallbacks ==
    run.pc # "none" =>
      /\ \A i \in 1..Len(run.calls) :
            LET p == run.calls[i]
            IN  /\ RatLeq(Rat(0, 1), p.PercentDone)
                /\ RatLeq(p.PercentDone, Rat(100, 1))
                /\ (run.DurationMS > 0 /\ p.OutTimeUS > 0)
                      => \/ /\ (p.OutTimeUS \div 1000) <= run.DurationMS
                            /\ RatEq(p.PercentDone,
                                     Rat((p.OutTimeUS \div 1000) * 100, run.DurationMS))
                         \/ /\ (p.OutTimeUS \div 1000) > run.DurationMS
                            /\ RatEq(p.PercentDone, Rat(100, 1))
      /\ Len(run.calls) = Len(ProgressLines(run.scanned))
      /\ \A i \in 1..Len(run.calls) :
            ProgressLine(run.calls[i].Progress) = ProgressLines(run.scanned)[i]

\* C35: with admission passing (the resource check off) and every attempt running
\* to its return, a task that was accepted reaches SUCCESS or FAILED, and a task in
\* SUCCESS or FAILED stays there
C35_AcceptedTaskTerminates ==
    /\ ~resourceCheckEnabled =>
          ((tState \in {"pending", "active", "retry"})
              ~> (tState \in {"completed", "archived"}))
    /\ [][(tState \in {"completed", "archived"}) => (tState' = tState)]_vars

\* C36: storage holds outputs only of attempts that ended in SUCCESS: once every
\* attempt made so far has ended and the task is not in SUCCESS, nothing is stored
C36_FailedAttemptsStoreNothing ==
    (tState \in {"pending", "retry", "archived"} /\ invs = <<>>) => storage = {}

\* C36, amended: an attempt that ends in failure before its last command has
\* exited successfully has uploaded nothing; an output is stored only by an
\* attempt that is collecting its outputs after every one of its commands succeeded
C36_UploadsOnlyAfterLastCommand ==
    [][/\ storage' # storage =>
             \E a \in DOMAIN invs :
                /\ invs[a].pc = "collect"
                /\ invs[a].cmdIdx = Len(Commands(Req)) + 1
                /\ a \in DOMAIN invs' /\ invs'[a].outputFiles # invs[a].outputFiles
       /\ \A a \in DOMAIN invs :
             (/\ invs[a].pc \in {"start", "download", "run"}
              /\ a \in DOMAIN invs' /\ invs'[a].pc = "returned")
             => /\ invs'[a].err # <<>>
                /\ invs[a].outputFiles = EmptyMap
                /\ storage' = storage]_vars

\* the second command of a chain has failed and the attempt has uploaded nothing
C36_Witness ==
    /\ cur \in DOMAIN invs
    /\ invs[cur].pc = "returned" /\ invs[cur].exit = "ffmpeg"
    /\ invs[cur].cmdIdx = 2
    /\ attempts = 1
    /\ storage = {}

\* C37: for a fixed command string and fixed input and output path maps, the
\* expanded string is the same whatever order the maps are ranged over
C37_ExpandOrderIndependent ==
    (fnIn.fn = "expandPlaceholders" /\ fnOut.set) => fnOut.other = fnOut.once

\* C38: the progress-parsing goroutine never ends while the goroutine copying the
\* child's standard output is still blocked writing into the pipe, so that Run
\* returns once the child has exited or has been killed
C38_WriterNeverLeftBlocked ==
    run.pc # "none" => ~(run.parser = "done" /\ run.copier = "writing")

\* C39: for every content of /proc/meminfo the reported MemoryUsagePercent is
\* within [0, 100], also when the available memory exceeds MemTotal, and the
\* admission check is not failed by a wrapped subtraction
C39_MemoryPercentInRange ==
    (fnIn.fn = "GetResourceStatus" /\ fnOut.set) =>
        /\ RatLeq(Rat(0, 1), fnOut.status.MemoryUsagePercent)
        /\ RatLeq(fnOut.status.MemoryUsagePercent, Rat(100, 1))
        /\ LET mem == getLinuxMemory(fnIn.meminfo)
           IN  (mem.total > 0 /\ mem.available > mem.total) => fnOut.ok

====
